---- MODULE Spec2Model ----
(***************************************************************************)
(* TestWeaver: directive lexer, source scanner / IR builder, cross-file    *)
(* merger, IR validator and the generate orchestration.                    *)
(*                                                                         *)
(* Strings of the program are modelled as sequences of one-character       *)
(* strings (<<"k","e","y">> is "key"), so that split, trim, indexOf,       *)
(* substring and toLowerCase are computed character by character.          *)
(* JavaScript `undefined` is the value Undefined, `null` is Null.          *)
(***************************************************************************)
EXTENDS Integers, Sequences, FiniteSets, TLC

VARIABLES
    dsl,            \* lexer: the raw attribute value handed to the lexer
    jsonSrc,        \* lexer: [json |-> whether dsl is the text of a JSON array, elems |-> that array]
    parsedSteps,    \* lexer: result of parseStepDsl(dsl)
    parsedExpects,  \* lexer: result of parseExpectDsl(dsl)
    lexPc,          \* lexer: "input" before the call, "done" after it
    fs,             \* source tree: path -> file content
    globbed,        \* the list of paths the glob calls returned (may repeat a path)
    ir,             \* the TestIR built by the last pass
    out,            \* generated files on disk: set of [path, content]
    report,         \* [totalVitest, totalE2e] of the last pass: files it wrote
    pc,             \* orchestration: "idle" before the first pass, "done" after a pass
    passes,         \* orchestration: the number of runGenerate calls completed
    scanned,        \* scanner: the suites scanFile returned
    scanPc,         \* scanner: "input" before the call, "done" after it
    dslCheck,       \* DSL validation: result of validateStepDsl / validateExpectDsl on dsl
    messages,       \* DSL validation: the messages validateFile returned
    validation,     \* IR validator: the result validateIR returned for ir
    options,        \* DSL validation: [strict, enforceUniqueTestIdsPerContext]
    fileResults,    \* DSL validation: the calls of validateFiles made: [options, result]
    chkPc,          \* validation: "input" before a call, the callee's name after it
    changedFiles,   \* watch mode: the set changedFiles of runWatch
    debounceTimer,  \* watch mode: "null" until scheduleRegenerate first assigns a handle, then "set"
    pendingTimers,  \* watch mode: the timeouts that are scheduled and neither fired nor cleared
    inFlight,       \* watch mode: the calls of regenerate that await a glob, in start order
    events,         \* history: the number of change and add events handled
    burst,          \* history: the files of the events handled since a timeout last fired
    bursts,         \* history: the number of events handled when no timeout was pending
    regenerations,  \* history: the number of regeneration passes started
    uncovered       \* history: files with an event that no pass started later has scanned for yet

vars == <<dsl, jsonSrc, parsedSteps, parsedExpects, lexPc, fs, globbed, ir, out, report, pc, passes,
          scanned, scanPc, dslCheck, messages, validation, options, fileResults, chkPc,
          changedFiles, debounceTimer, pendingTimers, inFlight, events, burst, bursts,
          regenerations, uncovered>>
lexVars == <<dsl, jsonSrc, parsedSteps, parsedExpects, lexPc>>
genVars == <<globbed, ir, out, report, pc, passes>>
scanVars == <<scanned, scanPc>>
chkVars == <<dslCheck, messages, validation, options, fileResults, chkPc>>
watchVars == <<changedFiles, debounceTimer, pendingTimers, inFlight, events, burst, bursts,
               regenerations, uncovered>>

Undefined == <<"undefined">>
Null == <<"null">>

-----------------------------------------------------------------------------
(* Strings                                                                 *)

UpperLetters == <<"A","B","C","D","E","F","G","H","I","J","K","L","M",
                  "N","O","P","Q","R","S","T","U","V","W","X","Y","Z">>
LowerLetters == <<"a","b","c","d","e","f","g","h","i","j","k","l","m",
                  "n","o","p","q","r","s","t","u","v","w","x","y","z">>

WhiteSpace == {" ", "\t", "\n"}

\* String.prototype.toLowerCase on one (ASCII) character
ToLowerChar(c) ==
    IF \E i \in 1..26 : UpperLetters[i] = c
    THEN LowerLetters[CHOOSE i \in 1..26 : UpperLetters[i] = c]
    ELSE c

ToUpperChar(c) ==
    IF \E i \in 1..26 : LowerLetters[i] = c
    THEN UpperLetters[CHOOSE i \in 1..26 : LowerLetters[i] = c]
    ELSE c

RECURSIVE ToLowerCase(_)
ToLowerCase(s) ==
    IF s = <<>> THEN <<>> ELSE <<ToLowerChar(Head(s))>> \o ToLowerCase(Tail(s))

\* String.prototype.indexOf(c): 0-based index of the first c, -1 when absent
IndexOf(s, c) ==
    IF \E i \in 1..Len(s) : s[i] = c
    THEN (CHOOSE i \in 1..Len(s) : s[i] = c /\ \A j \in 1..(i-1) : s[j] # c) - 1
    ELSE -1

\* String.prototype.substring(from, to) and substring(from), 0-based, end exclusive
Substring(s, from, to) == SubSeq(s, from + 1, to)
SubstringFrom(s, from) == SubSeq(s, from + 1, Len(s))

\* String.prototype.trim
RECURSIVE TrimStart(_)
TrimStart(s) ==
    IF s # <<>> /\ Head(s) \in WhiteSpace THEN TrimStart(Tail(s)) ELSE s

RECURSIVE TrimEnd(_)
TrimEnd(s) ==
    IF s # <<>> /\ s[Len(s)] \in WhiteSpace THEN TrimEnd(SubSeq(s, 1, Len(s) - 1)) ELSE s

Trim(s) == TrimEnd(TrimStart(s))

\* String.prototype.split(sep) for a one-character separator
RECURSIVE Split(_, _)
Split(s, sep) ==
    LET i == IndexOf(s, sep)
    IN  IF i = -1 THEN <<s>>
        ELSE <<Substring(s, 0, i)>> \o Split(SubstringFrom(s, i + 1), sep)

\* String.prototype.replace(/c/g, d)
RECURSIVE ReplaceAll(_, _, _)
ReplaceAll(s, c, d) ==
    IF s = <<>> THEN <<>>
    ELSE (IF Head(s) = c THEN d ELSE <<Head(s)>>) \o ReplaceAll(Tail(s), c, d)

\* Array.prototype.map(s => s.trim())
RECURSIVE MapTrim(_)
MapTrim(parts) ==
    IF parts = <<>> THEN <<>> ELSE <<Trim(Head(parts))>> \o MapTrim(Tail(parts))

\* Array.prototype.filter(Boolean) on strings: the empty string is falsy
FilterNonEmptyKeepAll(parts) == parts

RECURSIVE FilterNonEmpty(_)
FilterNonEmpty(parts) ==
    IF parts = <<>> THEN <<>>
    ELSE (IF Head(parts) # <<>> THEN <<Head(parts)>> ELSE <<>>) \o FilterNonEmpty(Tail(parts))

\* dsl.split(";").map((s) => s.trim()).filter(Boolean)
DslParts(s) == FilterNonEmpty(MapTrim(Split(s, ";")))

-----------------------------------------------------------------------------
(* Directive lexer                                                         *)

CLICK == <<"c","l","i","c","k">>
TYPE == <<"t","y","p","e">>
CHANGE == <<"c","h","a","n","g","e">>
FOCUS == <<"f","o","c","u","s">>
BLUR == <<"b","l","u","r">>
KEY == <<"k","e","y">>
SELECT == <<"s","e","l","e","c","t">>
HOVER == <<"h","o","v","e","r">>
CLEAR == <<"c","l","e","a","r">>
WAITFOR == <<"w","a","i","t","F","o","r">>
SUBMITCONTEXT == <<"s","u","b","m","i","t","C","o","n","t","e","x","t">>
CUSTOM == <<"c","u","s","t","o","m">>

\* type StepAction
StepAction == {CLICK, TYPE, CHANGE, FOCUS, BLUR, KEY, SELECT, HOVER, CLEAR,
               CUSTOM, WAITFOR, SUBMITCONTEXT}

\* the validActions array of isValidStepAction
validActions == <<CLICK, TYPE, CHANGE, FOCUS, BLUR, KEY, CUSTOM, WAITFOR, SUBMITCONTEXT>>

isValidStepAction(action) == \E i \in 1..Len(validActions) : validActions[i] = action

\* steps.push({ action }) / steps.push({ action, value })
KnownStep(action, value) == [action |-> action, value |-> value]

\* steps.push({ action: "custom", value: part })
CustomStepLowered(part) == [action |-> CUSTOM, value |-> ToLowerCase(part)]

CustomStep(part) == [action |-> CUSTOM, value |-> part]

\* the body of the for loop of parseStepDsl, for one part
ParseStepPart(part) ==
    LET colonIndex == IndexOf(part, ":")
    IN  IF colonIndex = -1
        THEN LET action == ToLowerCase(part)
             IN  IF isValidStepAction(action)
                 THEN KnownStep(action, Undefined)
                 ELSE CustomStep(part)
        ELSE LET action == ToLowerCase(Trim(Substring(part, 0, colonIndex)))
                 value == Trim(SubstringFrom(part, colonIndex + 1))
             IN  IF isValidStepAction(action)
                 THEN KnownStep(action, value)
                 ELSE CustomStep(part)

RECURSIVE ParseStepParts(_)
ParseStepParts(parts) ==
    IF parts = <<>> THEN <<>>
    ELSE <<ParseStepPart(Head(parts))>> \o ParseStepParts(Tail(parts))

parseStepDsl(s) == ParseStepParts(DslParts(s))

E_VISIBLE == <<"v","i","s","i","b","l","e">>
E_NOT_VISIBLE == <<"n","o","t","-","v","i","s","i","b","l","e">>
E_EXISTS == <<"e","x","i","s","t","s">>
E_NOT_EXISTS == <<"n","o","t","-","e","x","i","s","t","s">>
E_TEXT == <<"t","e","x","t">>
E_EXACT_TEXT == <<"e","x","a","c","t","-","t","e","x","t">>
E_VALUE == <<"v","a","l","u","e">>
E_HAS_CLASS == <<"h","a","s","-","c","l","a","s","s">>
E_NOT_HAS_CLASS == <<"n","o","t","-","h","a","s","-","c","l","a","s","s">>
E_ARIA == <<"a","r","i","a">>
E_URL_CONTAINS == <<"u","r","l","-","c","o","n","t","a","i","n","s">>
E_URL_EXACT == <<"u","r","l","-","e","x","a","c","t">>
E_SNAPSHOT == <<"s","n","a","p","s","h","o","t">>
E_CUSTOM == <<"c","u","s","t","o","m">>

\* type ExpectType; also the validTypes array of normalizeExpectType
validTypes == <<E_VISIBLE, E_NOT_VISIBLE, E_EXISTS, E_NOT_EXISTS, E_TEXT, E_EXACT_TEXT, E_VALUE, E_HAS_CLASS, E_NOT_HAS_CLASS, E_ARIA, E_URL_CONTAINS, E_URL_EXACT, E_SNAPSHOT, E_CUSTOM>>

ExpectType == {validTypes[i] : i \in 1..Len(validTypes)}

\* the aliases object literal of normalizeExpectType: <<key, value>> pairs
aliases == <<
    <<<<"n","o","t","v","i","s","i","b","l","e">>, E_NOT_VISIBLE>>,
    <<<<"n","o","t","e","x","i","s","t","s">>, E_NOT_EXISTS>>,
    <<<<"e","x","a","c","t","t","e","x","t">>, E_EXACT_TEXT>>,
    <<<<"h","a","s","c","l","a","s","s">>, E_HAS_CLASS>>,
    <<<<"n","o","t","h","a","s","c","l","a","s","s">>, E_NOT_HAS_CLASS>>,
    <<<<"u","r","l","c","o","n","t","a","i","n","s">>, E_URL_CONTAINS>>,
    <<<<"u","r","l","e","x","a","c","t">>, E_URL_EXACT>>
>>

\* Object.prototype members an object literal inherits; of these only
\* "constructor" can equal a lower-cased key with its hyphens removed
CONSTRUCTOR == <<"c","o","n","s","t","r","u","c","t","o","r">>
ObjectConstructor == <<"[Function: Object]">>

\* aliases[key] ?? null
AliasLookupNone(key) == Null

AliasLookup(key) ==
    IF \E i \in 1..Len(aliases) : aliases[i][1] = key
    THEN aliases[CHOOSE i \in 1..Len(aliases) : aliases[i][1] = key][2]
    ELSE IF key = CONSTRUCTOR THEN ObjectConstructor
    ELSE Null

normalizeExpectType(type) ==
    LET normalized == ReplaceAll(ToLowerCase(type), "_", <<"-">>)
    IN  IF \E i \in 1..Len(validTypes) : validTypes[i] = normalized
        THEN normalized
        ELSE AliasLookup(ReplaceAll(normalized, "-", <<>>))

\* the body of the for loop of parseExpectDsl, for one part: the records pushed
ParseExpectPart(part) ==
    LET colonIndex == IndexOf(part, ":")
    IN  IF colonIndex = -1
        THEN LET type == normalizeExpectType(part)
             IN  IF type # Null THEN <<[type |-> type, value |-> Undefined]>> ELSE <<>>
        ELSE LET rawType == Trim(Substring(part, 0, colonIndex))
                 value == Trim(SubstringFrom(part, colonIndex + 1))
                 type == normalizeExpectType(rawType)
             IN  IF type # Null THEN <<[type |-> type, value |-> value]>> ELSE <<>>

RECURSIVE ParseExpectParts(_)
ParseExpectParts(parts) ==
    IF parts = <<>> THEN <<>>
    ELSE ParseExpectPart(Head(parts)) \o ParseExpectParts(Tail(parts))

parseExpectDsl(s) == ParseExpectParts(DslParts(s))

-----------------------------------------------------------------------------
(* Source scanner and IR builder (scanFile)                                *)
(*                                                                         *)
(* A parsed file is the sequence of its JSX opening elements in document   *)
(* order, each with its nesting depth and the string values of its         *)
(* data-test-* attributes (Undefined when the attribute is absent or not a *)
(* string literal).  Element j lies in the subtree of element i when j     *)
(* follows i and every element from i+1 to j is deeper than i.             *)
(* A file whose read or parse throws has ok = FALSE.                       *)

\* the value of an absent optional selector
NoSelector == [type |-> "none", value |-> <<>>]

Digits == <<"0","1","2","3","4","5","6","7","8","9">>

\* template-literal conversion of a non-negative integer
RECURSIVE IntToStr(_)
IntToStr(n) ==
    IF n < 10 THEN <<Digits[n + 1]>>
    ELSE IntToStr(n \div 10) \o <<Digits[(n % 10) + 1]>>

createLocationRef(filePath, line, raw) ==
    [filePath |-> filePath, line |-> line, via |-> "attribute", raw |-> raw]

createSelectorCss(testId) == [type |-> "css", value |-> testId]

createSelector(testId) == [type |-> "testId", value |-> testId]

generateCaseId(context, scenario) == context \o <<"_", "_">> \o scenario

generateStepIdFromZero(index) == <<"s","t","e","p","-">> \o IntToStr(index)

generateStepId(index) == <<"s","t","e","p","-">> \o IntToStr(index + 1)

generateExpectId(index) == <<"e","x","p","-">> \o IntToStr(index + 1)

\* path.extname(filePath).toLowerCase(): from the last '.' of the path
ExtName(filePath) ==
    LET dots == {i \in 1..Len(filePath) : filePath[i] = "."}
    IN  IF dots = {} \/ dots = {1} THEN <<>>
        ELSE ToLowerCase(SubSeq(filePath, CHOOSE i \in dots : \A j \in dots : j <= i,
                                Len(filePath)))

getLanguageFromPath(filePath) ==
    LET ext == ExtName(filePath)
    IN  CASE ext = <<".","t","s","x">> -> "tsx"
          [] ext = <<".","j","s","x">> -> "jsx"
          [] ext = <<".","t","s">> -> "ts"
          [] ext = <<".","j","s">> -> "js"
          [] ext = <<".","v","u","e">> -> "vue"
          [] ext = <<".","s","v","e","l","t","e">> -> "svelte"
          [] ext = <<".","h","t","m","l">> -> "html"
          [] OTHER -> "tsx"

\* elements in the subtree of element i (parentPath.traverse, minus the element itself)
DescendantsChildrenOnly(elems, i) ==
    {j \in (i + 1)..Len(elems) :
        /\ elems[j].depth = elems[i].depth + 1
        /\ \A m \in (i + 1)..j : elems[m].depth > elems[i].depth}

Descendants(elems, i) ==
    {j \in (i + 1)..Len(elems) : \A m \in (i + 1)..j : elems[m].depth > elems[i].depth}

\* testId ?? stepDsl ?? expectDsl
FirstDefined(a, b, c) == IF a # Undefined THEN a ELSE IF b # Undefined THEN b ELSE c

\* the ChildElementData collected for a descendant that has a DSL attribute
ChildData(filePath, e, line) ==
    [testId |-> e.testId,
     steps |-> IF e.step # Undefined THEN parseStepDsl(e.step) ELSE <<>>,
     expectations |-> IF e.expect # Undefined THEN parseExpectDsl(e.expect) ELSE <<>>,
     location |-> createLocationRef(filePath, line, FirstDefined(e.testId, e.step, e.expect))]

\* contextData.children: the descendants of element i from position j on, in document order
RECURSIVE ChildrenFrom(_, _, _, _)
ChildrenFrom(filePath, elems, i, j) ==
    IF j > Len(elems) THEN <<>>
    ELSE LET e == elems[j]
             collected ==
                 /\ j \in Descendants(elems, i)
                 /\ (e.testId # Undefined \/ e.step # Undefined \/ e.expect # Undefined)
         IN  (IF collected THEN <<ChildData(filePath, e, j)>> ELSE <<>>)
                 \o ChildrenFrom(filePath, elems, i, j + 1)

\* first pass: one ContextElementData per element that has data-test-context
RECURSIVE ContextElementsFrom(_, _, _)
ContextElementsFrom(filePath, elems, i) ==
    IF i > Len(elems) THEN <<>>
    ELSE (IF elems[i].context = Undefined THEN <<>>
          ELSE <<[context |-> elems[i].context,
                  scenario |-> elems[i].scenario,
                  route |-> elems[i].route,
                  location |-> createLocationRef(filePath, i,
                                   <<"c","o","n","t","e","x","t","=">> \o elems[i].context),
                  children |-> ChildrenFrom(filePath, elems, i, i + 1)]>>)
             \o ContextElementsFrom(filePath, elems, i + 1)

\* the steps built from the children, numbered from stepIndex on
RECURSIVE BuildSteps(_, _)
BuildSteps(children, stepIndex) ==
    IF children = <<>> THEN <<>>
    ELSE LET child == Head(children)
             built ==
                 IF child.testId = Undefined THEN <<>>
                 ELSE [k \in 1..Len(child.steps) |->
                          [id |-> generateStepId(stepIndex + k - 1),
                           action |-> child.steps[k].action,
                           selector |-> createSelector(child.testId),
                           source |-> child.location,
                           value |-> child.steps[k].value]]
         IN  built \o BuildSteps(Tail(children), stepIndex + Len(built))

\* the expectations built from the children, numbered from expectIndex on
RECURSIVE BuildExpectations(_, _)
BuildExpectations(children, expectIndex) ==
    IF children = <<>> THEN <<>>
    ELSE LET child == Head(children)
             built ==
                 [k \in 1..Len(child.expectations) |->
                     [id |-> generateExpectId(expectIndex + k - 1),
                      type |-> child.expectations[k].type,
                      source |-> child.location,
                      selector |-> IF child.testId # Undefined
                                   THEN createSelector(child.testId) ELSE NoSelector,
                      value |-> child.expectations[k].value]]
         IN  built \o BuildExpectations(Tail(children), expectIndex + Len(built))

\* the TestCase built for one context element
BuildTestCase(contextData) ==
    LET scenarioName == IF contextData.scenario # Undefined
                        THEN contextData.scenario ELSE <<"d","e","f","a","u","l","t">>
    IN  [id |-> generateCaseId(contextData.context, scenarioName),
         context |-> contextData.context,
         scenario |-> scenarioName,
         type |-> IF contextData.route # Undefined THEN "e2e" ELSE "ui",
         route |-> contextData.route,
         definedAt |-> <<contextData.location>>,
         steps |-> BuildSteps(contextData.children, 0),
         expectations |-> BuildExpectations(contextData.children, 0)]

\* index of the suite of a context in a list of suites, 0 when there is none (suiteMap.get)
SuiteIndex(suites, context) ==
    IF \E i \in 1..Len(suites) : suites[i].context = context
    THEN CHOOSE i \in 1..Len(suites) : suites[i].context = context
    ELSE 0

\* suite.cases.push(testCase)
AddCaseToSuite(suite, testCase) == [suite EXCEPT !.cases = Append(@, testCase)]

\* second pass of scanFile: get or create the suite, build the case, push it
RECURSIVE BuildSuites(_, _, _)
BuildSuites(filePath, contextElements, suites) ==
    IF contextElements = <<>> THEN suites
    ELSE LET contextData == Head(contextElements)
             found == SuiteIndex(suites, contextData.context)
             withSuite ==
                 IF found # 0 THEN suites
                 ELSE Append(suites,
                             [id |-> contextData.context,
                              context |-> contextData.context,
                              sourceFiles |-> <<[filePath |-> filePath,
                                                 framework |-> "react",
                                                 language |-> getLanguageFromPath(filePath)]>>,
                              cases |-> <<>>])
             at == SuiteIndex(withSuite, contextData.context)
         IN  BuildSuites(filePath, Tail(contextElements),
                         [withSuite EXCEPT ![at] = AddCaseToSuite(@, BuildTestCase(contextData))])

\* scanFile's result for a file that reads and parses
scanFile(filePath) ==
    BuildSuites(filePath, ContextElementsFrom(filePath, fs[filePath].elems, 1), <<>>)

\* whether scanFile(filePath) throws (readFileSync or babelParse fails)
scanFileThrows(filePath) == ~fs[filePath].ok

-----------------------------------------------------------------------------
(* Cross-file merger (scanAllFiles)                                        *)

\* existing.cases after the loop over suite.cases: a case is pushed unless
\* a case with its id is already there
RECURSIVE MergeCases(_, _)
MergeCases(existingCases, newCases) ==
    IF newCases = <<>> THEN existingCases
    ELSE LET newCase == Head(newCases)
             caseExists == \E i \in 1..Len(existingCases) : existingCases[i].id = newCase.id
         IN  MergeCases(IF caseExists THEN existingCases ELSE Append(existingCases, newCase),
                        Tail(newCases))

\* existing.sourceFiles after the loop over suite.sourceFiles
MergeSourceFilesNoDedupe(existingFiles, newFiles) == existingFiles \o newFiles

RECURSIVE MergeSourceFiles(_, _)
MergeSourceFiles(existingFiles, newFiles) ==
    IF newFiles = <<>> THEN existingFiles
    ELSE LET sourceFile == Head(newFiles)
             alreadyExists ==
                 \E i \in 1..Len(existingFiles) : existingFiles[i].filePath = sourceFile.filePath
         IN  MergeSourceFiles(IF alreadyExists THEN existingFiles
                              ELSE Append(existingFiles, sourceFile),
                              Tail(newFiles))

\* the loop over fileSuites: merge into the suite of the same context, or add the suite
RECURSIVE MergeFileSuites(_, _)
MergeFileSuites(suites, fileSuites) ==
    IF fileSuites = <<>> THEN suites
    ELSE LET suite == Head(fileSuites)
             existing == SuiteIndex(suites, suite.context)
         IN  MergeFileSuites(
                 IF existing # 0
                 THEN [suites EXCEPT ![existing] =
                          [@ EXCEPT !.cases = MergeCases(@, suite.cases),
                                    !.sourceFiles = MergeSourceFiles(@, suite.sourceFiles)]]
                 ELSE Append(suites, suite),
                 Tail(fileSuites))

\* the catch block: the error is logged and the suites merged so far are kept
OnScanErrorLoseMerged(suites) == <<>>

OnScanError(suites) == suites

\* the loop over sourceFiles
RECURSIVE ScanAndMerge(_, _)
ScanAndMerge(sourceFiles, suites) ==
    IF sourceFiles = <<>> THEN suites
    ELSE LET filePath == Head(sourceFiles)
         IN  ScanAndMerge(Tail(sourceFiles),
                          IF scanFileThrows(filePath) THEN OnScanError(suites)
                          ELSE MergeFileSuites(suites, scanFile(filePath)))

\* process.cwd()
SourceRoot == <<"/">>

\* generatedAt (the wall clock at the time of the scan) is read by no code of
\* the pipeline and is left out of the record
scanAllFiles(sourceFiles) ==
    [version |-> 1, sourceRoot |-> SourceRoot, suites |-> ScanAndMerge(sourceFiles, <<>>)]

\* the value of ir before any pass has built one
NoIR == [version |-> 1, sourceRoot |-> SourceRoot, suites |-> <<>>]

-----------------------------------------------------------------------------
(* IR validator (validateIR)                                               *)
(*                                                                         *)
(* An issue is [severity, message, id, arg, context]: message is the       *)
(* template of the message text, id and arg the values substituted in it.  *)

SUPPORTED_STEP_ACTIONS ==
    <<CLICK, TYPE, CHANGE, FOCUS, BLUR, KEY, SELECT, HOVER, CLEAR, WAITFOR, SUBMITCONTEXT, CUSTOM>>

SUPPORTED_EXPECT_TYPES == validTypes

Includes(list, x) == \E i \in 1..Len(list) : list[i] = x

Issue(severity, message, id, arg, context) ==
    [severity |-> severity, message |-> message, id |-> id, arg |-> arg, context |-> context]

\* JavaScript !x for an optional string, and for an optional selector object
Falsy(x) == x = <<>> \/ x = Undefined

FalsySelectorNever(selector) == FALSE

FalsySelector(selector) == selector = NoSelector

actionsRequiringValueNoSelect == <<TYPE, CHANGE, KEY>>

\* the actions that need a value
actionsRequiringValue == <<TYPE, CHANGE, KEY, SELECT>>

validateStep(step, context) ==
    (IF Falsy(step.id)
     THEN <<Issue("error", "Step is missing an ID", <<>>, <<>>, context)>> ELSE <<>>)
    \o (IF FalsySelector(step.selector)
        THEN <<Issue("error", "Step \"${step.id}\" is missing a selector",
                     step.id, <<>>, context)>>
        ELSE <<>>)
    \o (IF ~Includes(SUPPORTED_STEP_ACTIONS, step.action)
        THEN <<Issue("warning",
                     "Step \"${step.id}\" has unsupported action \"${step.action}\". Will be treated as custom.",
                     step.id, step.action, context)>>
        ELSE <<>>)
    \o (IF Includes(actionsRequiringValue, step.action) /\ step.value = Undefined
        THEN <<Issue("warning",
                     "Step \"${step.id}\" with action \"${step.action}\" is missing a value",
                     step.id, step.action, context)>>
        ELSE <<>>)

validateExpectation(expectation, context) ==
    (IF Falsy(expectation.id)
     THEN <<Issue("error", "Expectation is missing an ID", <<>>, <<>>, context)>> ELSE <<>>)
    \o (IF ~Includes(SUPPORTED_EXPECT_TYPES, expectation.type)
        THEN <<Issue("warning",
                     "Expectation \"${expectation.id}\" has unsupported type \"${expectation.type}\". Will be treated as custom.",
                     expectation.id, expectation.type, context)>>
        ELSE <<>>)
    \o (IF ~Includes(<<E_URL_CONTAINS, E_URL_EXACT>>, expectation.type)
              /\ FalsySelector(expectation.selector)
        THEN <<Issue("warning",
                     "Expectation \"${expectation.id}\" of type \"${expectation.type}\" is missing a selector",
                     expectation.id, expectation.type, context)>>
        ELSE <<>>)
    \o (IF Includes(<<E_TEXT, E_EXACT_TEXT, E_VALUE, E_HAS_CLASS, E_NOT_HAS_CLASS, E_ARIA,
                      E_URL_CONTAINS, E_URL_EXACT>>, expectation.type)
              /\ expectation.value = Undefined
        THEN <<Issue("warning",
                     "Expectation \"${expectation.id}\" of type \"${expectation.type}\" is missing a value",
                     expectation.id, expectation.type, context)>>
        ELSE <<>>)

RECURSIVE ValidateSteps(_, _)
ValidateSteps(steps, context) ==
    IF steps = <<>> THEN <<>>
    ELSE validateStep(Head(steps), context) \o ValidateSteps(Tail(steps), context)

RECURSIVE ValidateExpectations(_, _)
ValidateExpectations(expectations, context) ==
    IF expectations = <<>> THEN <<>>
    ELSE validateExpectation(Head(expectations), context)
             \o ValidateExpectations(Tail(expectations), context)

\* context is the id of the enclosing suite (the text `suite "${suite.id}"`)
validateTestCase(testCase, context) ==
    LET caseContext == [suite |-> context, case |-> testCase.id]
        suiteContext == [suite |-> context, case |-> Undefined]
    IN  (IF Falsy(testCase.id)
         THEN <<Issue("error", "TestCase is missing an ID", <<>>, <<>>, suiteContext)>>
         ELSE <<>>)
        \o (IF Falsy(testCase.context)
            THEN <<Issue("error", "TestCase \"${testCase.id}\" is missing a context",
                         testCase.id, <<>>, caseContext)>>
            ELSE <<>>)
        \o (IF Falsy(testCase.scenario)
            THEN <<Issue("warning",
                         "TestCase \"${testCase.id}\" is missing a scenario name, using default",
                         testCase.id, <<>>, caseContext)>>
            ELSE <<>>)
        \o (IF Len(testCase.steps) = 0 /\ Len(testCase.expectations) = 0
            THEN <<Issue("info", "TestCase \"${testCase.id}\" has no steps or expectations",
                         testCase.id, <<>>, caseContext)>>
            ELSE <<>>)
        \o ValidateSteps(testCase.steps, caseContext)
        \o ValidateExpectations(testCase.expectations, caseContext)

RECURSIVE ValidateCases(_, _)
ValidateCases(cases, context) ==
    IF cases = <<>> THEN <<>>
    ELSE validateTestCase(Head(cases), context) \o ValidateCases(Tail(cases), context)

RootContext == [suite |-> Undefined, case |-> Undefined]

validateTestSuite(suite) ==
    LET context == [suite |-> suite.id, case |-> Undefined]
    IN  (IF Falsy(suite.id)
         THEN <<Issue("error", "TestSuite is missing an ID", <<>>, <<>>, RootContext)>>
         ELSE <<>>)
        \o (IF Falsy(suite.context)
            THEN <<Issue("error", "TestSuite \"${suite.id}\" is missing a context",
                         suite.id, <<>>, context)>>
            ELSE <<>>)
        \o (IF Len(suite.cases) = 0
            THEN <<Issue("warning", "TestSuite \"${suite.id}\" has no test cases",
                         suite.id, <<>>, context)>>
            ELSE <<>>)
        \o ValidateCases(suite.cases, suite.id)

RECURSIVE ValidateSuites(_)
ValidateSuites(suites) ==
    IF suites = <<>> THEN <<>>
    ELSE validateTestSuite(Head(suites)) \o ValidateSuites(Tail(suites))

CountSeverityAll(issues, severity) == Len(issues)

CountSeverity(issues, severity) ==
    Cardinality({i \in 1..Len(issues) : issues[i].severity = severity})

validateIR(testIR) ==
    LET issues ==
            (IF testIR.version # 1
             THEN <<Issue("warning", "IR version ${ir.version} may not be fully supported",
                          <<>>, <<>>, RootContext)>>
             ELSE <<>>)
            \o (IF Len(testIR.suites) = 0
                THEN <<Issue("info", "IR contains no test suites", <<>>, <<>>, RootContext)>>
                ELSE <<>>)
            \o ValidateSuites(testIR.suites)
        errorCount == CountSeverity(issues, "error")
        warningCount == CountSeverity(issues, "warning")
    IN  [valid |-> errorCount = 0,
         issues |-> issues,
         errorCount |-> errorCount,
         warningCount |-> warningCount]

\* the value of validation before validateIR has been called
NoValidation == [valid |-> TRUE, issues |-> <<>>, errorCount |-> 0, warningCount |-> 0]

-----------------------------------------------------------------------------
(* DSL validation of source files (validateFile)                           *)
(*                                                                         *)
(* A message is [severity, filePath, line, ruleId, message, arg]: message  *)
(* is the template of the message text and arg the value substituted in    *)
(* it.  The line is the position of the element in the file, as in the     *)
(* scanner; attribute columns are not modelled.                            *)

\* VALID_STEP_ACTIONS (lowercase for comparison)
VALID_STEP_ACTIONS ==
    <<CLICK, TYPE, CHANGE, FOCUS, BLUR, KEY, CUSTOM,
      <<"w","a","i","t","f","o","r">>,
      <<"s","u","b","m","i","t","c","o","n","t","e","x","t">>>>

VALID_EXPECT_TYPES == validTypes

\* { valid: true } and { valid: false, invalidAction / invalidType }
DslValid == [valid |-> TRUE, invalid |-> Undefined]

DslInvalid(name) == [valid |-> FALSE, invalid |-> name]

\* the value of dslCheck before a call
NoDslCheck == DslValid

\* the action, or the raw type, of one part: the lower-cased text before the first colon
PartName(part) ==
    LET colonIndex == IndexOf(part, ":")
    IN  IF colonIndex = -1
        THEN ToLowerCase(part)
        ELSE ToLowerCase(Trim(Substring(part, 0, colonIndex)))

\* the loop of validateStepDsl: returns at the first part whose action is not valid
ValidateStepPartsLastInvalid(parts) ==
    LET bad == {i \in 1..Len(parts) : ~Includes(VALID_STEP_ACTIONS, PartName(parts[i]))}
    IN  IF bad = {} THEN DslValid
        ELSE DslInvalid(PartName(parts[CHOOSE i \in bad : \A j \in bad : j <= i]))

RECURSIVE ValidateStepParts(_)
ValidateStepParts(parts) ==
    IF parts = <<>> THEN DslValid
    ELSE IF ~Includes(VALID_STEP_ACTIONS, PartName(Head(parts)))
         THEN DslInvalid(PartName(Head(parts)))
         ELSE ValidateStepParts(Tail(parts))

validateStepDsl(s) == ValidateStepParts(DslParts(s))

\* aliases[normalizedNoHyphens] !== undefined, for the aliases literal of
\* validateExpectDsl (the same keys as in normalizeExpectType)
AliasDefined(key) ==
    \/ \E i \in 1..Len(aliases) : aliases[i][1] = key
    \/ key = CONSTRUCTOR

\* the loop of validateExpectDsl: returns at the first part whose type is not valid
RECURSIVE ValidateExpectParts(_)
ValidateExpectParts(parts) ==
    IF parts = <<>> THEN DslValid
    ELSE LET rawType == PartName(Head(parts))
             normalized == ReplaceAll(rawType, "_", <<"-">>)
             normalizedNoHyphens == ReplaceAll(normalized, "-", <<>>)
             isValid == \/ Includes(VALID_EXPECT_TYPES, normalized)
                        \/ AliasDefined(normalizedNoHyphens)
         IN  IF ~isValid THEN DslInvalid(rawType)
             ELSE ValidateExpectParts(Tail(parts))

validateExpectDsl(s) == ValidateExpectParts(DslParts(s))

\* ValidationOptions with its defaults: strict off, unique test ids enforced
DefaultOptions == [strict |-> FALSE, enforceUniqueTestIdsPerContext |-> TRUE]

Message(severity, filePath, line, ruleId, message, arg) ==
    [severity |-> severity, filePath |-> filePath, line |-> line, ruleId |-> ruleId,
     message |-> message, arg |-> arg]

\* contexts.push({ context, scenario: scenarioAttr?.value ?? "default", testIds: new Map() })
PushContext(contexts, e) ==
    IF e.context # Undefined
    THEN Append(contexts,
                [context |-> e.context,
                 scenario |-> IF e.scenario # Undefined THEN e.scenario
                              ELSE <<"d","e","f","a","u","l","t">>,
                 testIds |-> {}])
    ELSE contexts

\* the test-id check of one element against the context pushed last:
\* [contexts, messages] afterwards; testIds holds [id, line] entries
CheckTestId(filePath, e, line, contexts, opts) ==
    IF e.testId # Undefined /\ Len(contexts) > 0 /\ opts.enforceUniqueTestIdsPerContext
    THEN LET currentContext == contexts[Len(contexts)]
             existing == {x \in currentContext.testIds : x.id = e.testId}
         IN  IF existing # {}
             THEN [contexts |-> contexts,
                   messages |->
                       <<Message("warning", filePath, line, "duplicate-test-id",
                                 "Duplicate data-test-id in context, first defined at line",
                                 <<e.testId, currentContext.context, currentContext.scenario,
                                   (CHOOSE x \in existing : TRUE).line>>)>>]
             ELSE [contexts |->
                       [contexts EXCEPT ![Len(contexts)].testIds =
                            @ \cup {[id |-> e.testId, line |-> line]}],
                   messages |-> <<>>]
    ELSE [contexts |-> contexts, messages |-> <<>>]

\* the messages for the data-test-step attribute of one element
CheckStepAttr(filePath, e, line) ==
    IF e.step # Undefined
    THEN (IF ~validateStepDsl(e.step).valid
          THEN <<Message("error", filePath, line, "invalid-action", "Invalid action",
                         validateStepDsl(e.step).invalid)>>
          ELSE <<>>)
         \o (IF e.testId = Undefined
             THEN <<Message("warning", filePath, line, "step-missing-id",
                            "Step is missing data-test-id", <<>>)>>
             ELSE <<>>)
    ELSE <<>>

\* the messages for the data-test-expect attribute of one element
CheckExpectAttr(filePath, e, line) ==
    IF e.expect # Undefined /\ ~validateExpectDsl(e.expect).valid
    THEN <<Message("error", filePath, line, "invalid-expectation", "Invalid expectation type",
                   validateExpectDsl(e.expect).invalid)>>
    ELSE <<>>

\* the JSXOpeningElement visitor of validateFile, on the elements from i on
RECURSIVE VisitElements(_, _, _, _, _, _)
VisitElements(filePath, elems, i, contexts, msgs, opts) ==
    IF i > Len(elems) THEN msgs
    ELSE LET pushed == PushContext(contexts, elems[i])
             ids == CheckTestId(filePath, elems[i], i, pushed, opts)
         IN  VisitElements(filePath, elems, i + 1, ids.contexts,
                           msgs \o ids.messages
                                \o CheckStepAttr(filePath, elems[i], i)
                                \o CheckExpectAttr(filePath, elems[i], i),
                           opts)

\* validateFile: a file whose read throws gives the single file-read-error message
validateFile(filePath, opts) ==
    IF ~fs[filePath].ok
    THEN <<Message("error", filePath, 0, "file-read-error", "Failed to read file", <<>>)>>
    ELSE VisitElements(filePath, fs[filePath].elems, 1, <<>>, <<>>, opts)

\* validateFile on each path of the list in turn, the messages concatenated
RECURSIVE ValidateEach(_, _)
ValidateEach(filePaths, opts) ==
    IF filePaths = <<>> THEN <<>>
    ELSE validateFile(Head(filePaths), opts) \o ValidateEach(Tail(filePaths), opts)

effectiveErrorCountLenient(opts, errorCount, warningCount) == errorCount

\* in strict mode, warnings count as errors
effectiveErrorCount(opts, errorCount, warningCount) ==
    IF opts.strict THEN errorCount + warningCount ELSE errorCount

validateFiles(filePaths, opts) ==
    LET allMessages == ValidateEach(filePaths, opts)
        errorCount == CountSeverity(allMessages, "error")
        warningCount == CountSeverity(allMessages, "warning")
        infoCount == CountSeverity(allMessages, "info")
    IN  [messages |-> allMessages,
         errorCount |-> errorCount,
         warningCount |-> warningCount,
         infoCount |-> infoCount,
         valid |-> effectiveErrorCount(opts, errorCount, warningCount) = 0]

-----------------------------------------------------------------------------
(* Code generators and the generate orchestration                          *)

\* generateVitestFileName / generatePlaywrightFileName: {context}.{scenario}.<ext>
generateVitestFileName(testCase) ==
    testCase.context \o <<".">> \o testCase.scenario \o <<".","t","e","s","t",".","t","s","x">>

generatePlaywrightFileName(testCase) ==
    testCase.context \o <<".">> \o testCase.scenario \o <<".","s","p","e","c",".","t","s">>

\* the emitted lines of a case: its steps in order, then its expectations in order
GeneratedBody(testCase) ==
    [k \in 1..Len(testCase.steps) |->
        [emit |-> "step", name |-> testCase.steps[k].action,
         selector |-> testCase.steps[k].selector, value |-> testCase.steps[k].value]]
    \o [k \in 1..Len(testCase.expectations) |->
        [emit |-> "expect", name |-> testCase.expectations[k].type,
         selector |-> testCase.expectations[k].selector,
         value |-> testCase.expectations[k].value]]

\* the provenance comment: source file, context and scenario, from definedAt
GeneratedHeader(testCase) ==
    [source |-> testCase.definedAt[1].filePath,
     context |-> testCase.context,
     scenario |-> testCase.scenario]

\* the file text generated for a suite holding one case
generateVitest(suite) ==
    [runner |-> "vitest", suite |-> suite.id,
     header |-> GeneratedHeader(suite.cases[1]), body |-> GeneratedBody(suite.cases[1])]

generatePlaywright(suite) ==
    [runner |-> "playwright", suite |-> suite.id, route |-> suite.cases[1].route,
     header |-> GeneratedHeader(suite.cases[1]), body |-> GeneratedBody(suite.cases[1])]

\* DEFAULT_CONFIG: path.join(outputDir, vitestDir) and path.join(outputDir, e2eDir)
VitestOutDir == <<"v","i","t","e","s","t">>
E2eOutDir == <<"e","2","e">>

\* path.join(dir, fileName)
PathJoin(dir, fileName) == dir \o <<"/">> \o fileName

\* writeFileIfChanged: whether the file is written, and the files on disk afterwards
WriteNeeded(files, path, content) ==
    ~\E f \in files : f.path = path /\ f.content = content

\* a write that removes the file when the content is unchanged
FilesAfterWriteUnlinkUnchanged(files, path, content) ==
    IF WriteNeeded(files, path, content)
    THEN {f \in files : f.path # path} \cup {[path |-> path, content |-> content]}
    ELSE {f \in files : f.path # path}

FilesAfterWrite(files, path, content) ==
    IF WriteNeeded(files, path, content)
    THEN {f \in files : f.path # path} \cup {[path |-> path, content |-> content]}
    ELSE files

\* generateTestFilesForSuite: acc = [files, vitestFiles, e2eFiles]
RECURSIVE GenerateCases(_, _, _)
GenerateCases(suite, cases, acc) ==
    IF cases = <<>> THEN acc
    ELSE LET testCase == Head(cases)
             vitestContent == generateVitest([suite EXCEPT !.cases = <<testCase>>])
             vitestFilePath == PathJoin(VitestOutDir, generateVitestFileName(testCase))
             afterVitest == FilesAfterWrite(acc.files, vitestFilePath, vitestContent)
             playwrightContent == generatePlaywright([suite EXCEPT !.cases = <<testCase>>])
             playwrightFilePath == PathJoin(E2eOutDir, generatePlaywrightFileName(testCase))
             afterPlaywright ==
                 FilesAfterWrite(afterVitest, playwrightFilePath, playwrightContent)
         IN  GenerateCases(suite, Tail(cases),
                 [files |-> afterPlaywright,
                  vitestFiles |->
                      IF WriteNeeded(acc.files, vitestFilePath, vitestContent)
                      THEN Append(acc.vitestFiles, vitestFilePath) ELSE acc.vitestFiles,
                  e2eFiles |->
                      IF WriteNeeded(afterVitest, playwrightFilePath, playwrightContent)
                      THEN Append(acc.e2eFiles, playwrightFilePath) ELSE acc.e2eFiles])

generateTestFilesForSuite(suite, files) ==
    GenerateCases(suite, suite.cases, [files |-> files, vitestFiles |-> <<>>, e2eFiles |-> <<>>])

\* generateAllTestFiles: acc = [files, totalVitest, totalE2e]
RECURSIVE GenerateSuites(_, _)
GenerateSuites(suites, acc) ==
    IF suites = <<>> THEN acc
    ELSE LET res == generateTestFilesForSuite(Head(suites), acc.files)
         IN  GenerateSuites(Tail(suites),
                 [files |-> res.files,
                  totalVitest |-> acc.totalVitest + Len(res.vitestFiles),
                  totalE2e |-> acc.totalE2e + Len(res.e2eFiles)])

generateAllTestFiles(testIR, files) ==
    GenerateSuites(testIR.suites, [files |-> files, totalVitest |-> 0, totalE2e |-> 0])

NoReport == [totalVitest |-> 0, totalE2e |-> 0]

\* the number of passes run over one source tree
MaxPasses == 2

\* runGenerate: glob, scan, generate
RunGenerate ==
    /\ pc \in {"idle", "done"}
    /\ passes < MaxPasses
    /\ IF Len(globbed) = 0
       THEN UNCHANGED <<ir, out, report>>
       ELSE \E newIR \in {scanAllFiles(globbed)} :
                /\ ir' = newIR
                /\ IF Len(newIR.suites) = 0
                   THEN UNCHANGED <<out, report>>
                   ELSE \E res \in {generateAllTestFiles(newIR, out)} :
                            /\ out' = res.files
                            /\ report' = [totalVitest |-> res.totalVitest,
                                          totalE2e |-> res.totalE2e]
    /\ pc' = "done"
    /\ passes' = passes + 1
    /\ UNCHANGED <<fs, globbed>>
    /\ UNCHANGED lexVars
    /\ UNCHANGED scanVars
    /\ UNCHANGED chkVars
    /\ UNCHANGED watchVars

-----------------------------------------------------------------------------
(* Inputs of the lexer                                                     *)

MaxLen == 5
MaxJsonLen == 2

\* characters of the enumerated directive strings: separators, blanks, the
\* letters of the action "key", and an upper-case letter
LexAlphabet == {";", ":", " ", "k", "e", "y", "K"}

PlainInputs == UNION {[1..n -> LexAlphabet] : n \in 0..MaxLen}

\* every letter-casing of a word
RECURSIVE Casings(_)
Casings(w) ==
    IF w = <<>> THEN {<<>>}
    ELSE {<<c>> \o r : c \in {ToLowerChar(Head(w)), ToUpperChar(Head(w))},
                       r \in Casings(Tail(w))}

\* a name of the StepAction enumeration in any casing, bare or with a value
EnumInputs ==
    UNION {Casings(m) : m \in StepAction}
      \cup {c \o <<":", "e">> : c \in UNION {Casings(m) : m \in StepAction \ {SUBMITCONTEXT}}}

\* JSON arrays of {"action": name} / {"assert": name} objects and their text
J_ACTION == <<"a","c","t","i","o","n">>
J_ASSERT == <<"a","s","s","e","r","t">>

JsonObjects ==
    {[key |-> J_ACTION, name |-> n] : n \in {CLICK, WAITFOR}}
      \cup {[key |-> J_ASSERT, name |-> n] : n \in {E_VISIBLE}}

JsonArrays == UNION {[1..n -> JsonObjects] : n \in 1..MaxJsonLen}

\* JSON.stringify of one object and of an array
JsonObjectText(o) ==
    <<"{", "\"">> \o o.key \o <<"\"", ":", "\"">> \o o.name \o <<"\"", "}">>

RECURSIVE JsonElementsText(_)
JsonElementsText(arr) ==
    IF arr = <<>> THEN <<>>
    ELSE IF Len(arr) = 1 THEN JsonObjectText(arr[1])
    ELSE JsonObjectText(arr[1]) \o <<",">> \o JsonElementsText(Tail(arr))

JsonText(arr) == <<"[">> \o JsonElementsText(arr) \o <<"]">>

NoJson == [json |-> FALSE, elems |-> <<>>]

-----------------------------------------------------------------------------
(* The generate pipeline is idle while the lexer is exercised, and the     *)
(* lexer is idle while the pipeline is exercised.                          *)

\* the watcher is not set up, or has seen no event yet
WatchIdle ==
    /\ changedFiles = {}
    /\ debounceTimer = "null"
    /\ pendingTimers = 0
    /\ inFlight = <<>>
    /\ events = 0
    /\ burst = {}
    /\ bursts = 0
    /\ regenerations = 0
    /\ uncovered = {}

ScanIdle ==
    /\ scanned = <<>>
    /\ scanPc = "off"

ChkIdle ==
    /\ dslCheck = NoDslCheck
    /\ messages = <<>>
    /\ validation = NoValidation
    /\ fileResults = <<>>
    /\ options = DefaultOptions
    /\ chkPc = "off"

GenIdle ==
    /\ globbed = <<>>
    /\ ir = NoIR
    /\ out = {}
    /\ report = NoReport
    /\ pc = "off"
    /\ passes = 0

LexIdle ==
    /\ dsl = <<>>
    /\ jsonSrc = NoJson
    /\ parsedSteps = <<>>
    /\ parsedExpects = <<>>
    /\ lexPc = "off"

InitLex ==
    /\ WatchIdle
    /\ \/ dsl \in PlainInputs \cup EnumInputs /\ jsonSrc = NoJson
       \/ \E arr \in JsonArrays : dsl = JsonText(arr) /\ jsonSrc = [json |-> TRUE, elems |-> arr]
    /\ parsedSteps = <<>>
    /\ parsedExpects = <<>>
    /\ lexPc = "input"
    /\ fs = <<>>
    /\ GenIdle
    /\ ScanIdle
    /\ ChkIdle

\* the scanner hands a data-test-step attribute value to parseStepDsl
LexStep ==
    /\ lexPc = "input"
    /\ parsedSteps' = parseStepDsl(dsl)
    /\ lexPc' = "steps"
    /\ UNCHANGED <<dsl, jsonSrc, parsedExpects>>
    /\ UNCHANGED <<fs, globbed, ir, out, report, pc, passes, scanned, scanPc>>
    /\ UNCHANGED chkVars
    /\ UNCHANGED watchVars

\* the scanner hands a data-test-expect attribute value to parseExpectDsl
LexExpect ==
    /\ lexPc = "input"
    /\ parsedExpects' = parseExpectDsl(dsl)
    /\ lexPc' = "expects"
    /\ UNCHANGED <<dsl, jsonSrc, parsedSteps>>
    /\ UNCHANGED <<fs, globbed, ir, out, report, pc, passes, scanned, scanPc>>
    /\ UNCHANGED chkVars
    /\ UNCHANGED watchVars

NextLex == LexStep \/ LexExpect

SpecLex == InitLex /\ [][NextLex]_vars

-----------------------------------------------------------------------------
(* The expectation lexer and validateExpectDsl on expectation directives   *)

MaxExpSegs == 3

\* the ExpectType members whose name has more than one word
MultiWordTypes ==
    {E_NOT_VISIBLE, E_NOT_EXISTS, E_EXACT_TEXT, E_HAS_CLASS, E_NOT_HAS_CLASS,
     E_URL_CONTAINS, E_URL_EXACT}

\* the hyphenated, underscored and no-separator spellings of a type name
Spellings(m) == {m, ReplaceAll(m, "-", <<"_">>), ReplaceAll(m, "-", <<>>)}

\* every spelling of every multi-word type, in every letter-casing
SpellingInputs == UNION {UNION {Casings(w) : w \in Spellings(m)} : m \in MultiWordTypes}

FOO == <<"f","o","o">>

\* segments of the directives of several expectations: recognised types with
\* and without a value, unrecognised names, a blank segment
ExpectSegs ==
    {E_VISIBLE, E_TEXT \o <<":", "e">>, <<"N","o","t","_","V","i","s","i","b","l","e">>,
     FOO, FOO \o <<":", "e">>, CONSTRUCTOR, <<" ">>}

RECURSIVE JoinSegs(_)
JoinSegs(segs) ==
    IF segs = <<>> THEN <<>>
    ELSE IF Len(segs) = 1 THEN segs[1]
    ELSE segs[1] \o <<";">> \o JoinSegs(Tail(segs))

SegmentInputs == {JoinSegs(x) : x \in UNION {[1..n -> ExpectSegs] : n \in 0..MaxExpSegs}}

InitExpect ==
    /\ WatchIdle
    /\ dsl \in SpellingInputs \cup SegmentInputs
    /\ jsonSrc = NoJson
    /\ parsedSteps = <<>>
    /\ parsedExpects = <<>>
    /\ lexPc = "input"
    /\ dslCheck = NoDslCheck
    /\ messages = <<>>
    /\ validation = NoValidation
    /\ fileResults = <<>>
    /\ options = DefaultOptions
    /\ chkPc = "input"
    /\ fs = <<>>
    /\ GenIdle
    /\ ScanIdle

\* validateFile hands a data-test-expect attribute value to validateExpectDsl
CheckExpectDsl ==
    /\ chkPc = "input"
    /\ dslCheck' = validateExpectDsl(dsl)
    /\ chkPc' = "validateExpectDsl"
    /\ UNCHANGED <<fs, messages, validation, options, fileResults>>
    /\ UNCHANGED genVars
    /\ UNCHANGED lexVars
    /\ UNCHANGED scanVars
    /\ UNCHANGED watchVars

NextExpect == LexExpect \/ CheckExpectDsl

SpecExpect == InitExpect /\ [][NextExpect]_vars

-----------------------------------------------------------------------------
(* Inputs of the scanner and of the generate pipeline                      *)

MaxElems == 3
MaxFiles == 2
MaxScanElems == 3

P1 == <<"a", ".", "t", "s", "x">>
P2 == <<"b", ".", "j", "s", "x">>
Paths == {P1, P2}

CTX_A == <<"a">>
CTX_B == <<"b">>
SCN_S == <<"s">>
TID_T == <<"t">>
TAP == <<"t", "a", "p">>
DEFAULT == <<"d","e","f","a","u","l","t">>

\* a JSX opening element: its depth in the tree and the values of its
\* data-test-* attributes (Undefined for an absent attribute)
Elem(depth, context, scenario, route, testId, step, expect) ==
    [depth |-> depth, context |-> context, scenario |-> scenario, route |-> route,
     testId |-> testId, step |-> step, expect |-> expect, role |-> Undefined]

BUTTON == <<"b","u","t","t","o","n">>

\* an element with a data-test-role attribute and a step, with or without data-test-id
ElemWithRole(depth, testId, role, step) ==
    [Elem(depth, Undefined, Undefined, Undefined, testId, step, Undefined) EXCEPT !.role = role]

\* a pre-order listing of element depths: the first element is a root, and an
\* element is at most one level deeper than the element before it
WellFormed(elems) ==
    /\ elems # <<>> => elems[1].depth = 0
    /\ \A k \in 1..(Len(elems) - 1) : elems[k + 1].depth <= elems[k].depth + 1

\* elements of the files the pipeline is run on: context-declaring elements
\* (the context may be the empty string) and elements inside them that carry
\* a step with a known action, a step with an unknown action, or an expectation
GenElems ==
    {Elem(0, <<>>, Undefined, Undefined, Undefined, Undefined, Undefined),
     Elem(0, CTX_A, Undefined, Undefined, Undefined, Undefined, Undefined),
     Elem(0, CTX_A, SCN_S, Undefined, Undefined, Undefined, Undefined)}
      \cup {Elem(1, Undefined, Undefined, Undefined, TID_T, CLICK, Undefined),
            Elem(1, Undefined, Undefined, Undefined, TID_T, TAP, Undefined),
            Elem(1, Undefined, Undefined, Undefined, TID_T, Undefined, E_VISIBLE)}

\* a file that cannot be read or parsed
Unreadable == [ok |-> FALSE, elems |-> <<>>]

\* the files of n elements; a file that cannot be read counts for none
GenFileContents(n) ==
    {[ok |-> TRUE, elems |-> e] : e \in {x \in [1..n -> GenElems] : WellFormed(x)}}
      \cup (IF n = 0 THEN {Unreadable} ELSE {})

\* source trees of two files that hold at most MaxElems elements together
GenTrees ==
    UNION {UNION {{[p \in Paths |-> IF p = P1 THEN c1 ELSE c2] :
                      c1 \in GenFileContents(n1), c2 \in GenFileContents(n2)} :
                  n2 \in 0..(MaxElems - n1)} :
           n1 \in 0..MaxElems}

\* elements of the files scanFile alone is run on: nested contexts, routes,
\* elements without an identifier, directives of several segments, and
\* context-declaring elements that carry directives themselves
ScanElems ==
    {Elem(d, c, s, Undefined, Undefined, Undefined, Undefined) :
         d \in {0, 1}, c \in {CTX_A, CTX_B}, s \in {Undefined, SCN_S}}
      \cup {Elem(0, CTX_A, SCN_S, <<"/">>, Undefined, Undefined, Undefined)}
      \cup {Elem(d, Undefined, Undefined, Undefined, x[1], x[2], x[3]) :
               d \in {1, 2},
               x \in {<<TID_T, CLICK, Undefined>>,
                      <<TID_T, <<"k","e","y",":","e",";","t","a","p">>, Undefined>>,
                      <<Undefined, CLICK, E_VISIBLE>>,
                      <<TID_T, Undefined, <<"v","i","s","i","b","l","e",";","t","e","x","t",":","e">>>>}}
      \cup {ElemWithRole(1, Undefined, BUTTON, CLICK)}
      \cup {Elem(d, CTX_B, Undefined, Undefined, TID_T, CLICK, E_VISIBLE) : d \in {0, 1}}

\* the well-formed listings of at most n elements
RECURSIVE ScanListings(_)
ScanListings(n) ==
    IF n = 0 THEN {<<>>}
    ELSE LET shorter == ScanListings(n - 1)
         IN  shorter \cup {y \in {Append(x, e) : x \in {z \in shorter : Len(z) = n - 1},
                                                 e \in ScanElems} : WellFormed(y)}

ScanFileContents == {[ok |-> TRUE, elems |-> e] : e \in ScanListings(MaxScanElems)}

-----------------------------------------------------------------------------
(* The scanner on one file                                                 *)

InitScan ==
    /\ WatchIdle
    /\ fs \in [{P1} -> ScanFileContents]
    /\ scanned = <<>>
    /\ scanPc = "input"
    /\ GenIdle
    /\ LexIdle
    /\ ChkIdle

\* scanFile(P1) is called and returns
ScanOne ==
    /\ scanPc = "input"
    /\ ~scanFileThrows(P1)
    /\ scanned' = scanFile(P1)
    /\ scanPc' = "done"
    /\ UNCHANGED fs
    /\ UNCHANGED genVars
    /\ UNCHANGED lexVars
    /\ UNCHANGED chkVars
    /\ UNCHANGED watchVars

NextScan == ScanOne

SpecScan == InitScan /\ [][NextScan]_vars

-----------------------------------------------------------------------------
(* validateFile on one file                                                *)

MaxValLen == 4
MaxValElems == 3

SWIPE == <<"s","w","i","p","e">>

\* the data-test-step values validateFile is run on: every string over the
\* lexer's alphabet up to MaxValLen, and directives of several actions
ValSteps ==
    UNION {[1..n -> LexAlphabet] : n \in 0..MaxValLen}
      \cup {CLICK, SELECT, WAITFOR,
            TYPE \o <<":", "e", ";", " ">> \o CLICK \o <<";", " ">> \o SWIPE,
            TAP \o <<":", "e", ";">> \o SWIPE \o <<";">> \o CLICK}

\* elements of the files of several elements: a context element, and elements
\* with or without an identifier that carry a step or an expectation
ValElems ==
    {Elem(0, CTX_A, Undefined, Undefined, Undefined, Undefined, Undefined)}
      \cup {Elem(1, Undefined, Undefined, Undefined, id, x[1], x[2]) :
               id \in {Undefined, TID_T},
               x \in {<<CLICK, Undefined>>,
                      <<TAP, Undefined>>,
                      <<KEY \o <<":", "e", ";">> \o TAP \o <<";">> \o SWIPE, Undefined>>,
                      <<Undefined, E_VISIBLE>>,
                      <<Undefined, SWIPE>>}}

MaxIdElems == 4

TID_U == <<"u">>

\* elements of the files the test-id check is exercised on: context elements
\* at the root or nested, and elements with an identifier inside or outside them
IdElems ==
    {Elem(0, CTX_A, Undefined, Undefined, Undefined, Undefined, Undefined),
     Elem(0, CTX_B, Undefined, Undefined, Undefined, Undefined, Undefined),
     Elem(1, CTX_B, SCN_S, Undefined, Undefined, Undefined, Undefined)}
      \cup {Elem(d, Undefined, Undefined, Undefined, TID_T, Undefined, Undefined) : d \in {0, 1, 2}}
      \cup {Elem(1, Undefined, Undefined, Undefined, TID_U, Undefined, Undefined)}

\* the well-formed listings of at most n of these elements
RECURSIVE IdListings(_)
IdListings(n) ==
    IF n = 0 THEN {<<>>}
    ELSE LET shorter == IdListings(n - 1)
         IN  shorter \cup {y \in {Append(x, e) : x \in {z \in shorter : Len(z) = n - 1},
                                                 e \in IdElems} : WellFormed(y)}

ValFileContents ==
    {[ok |-> TRUE,
      elems |-> <<Elem(0, Undefined, Undefined, Undefined, id, s, Undefined)>>] :
         id \in {Undefined, TID_T}, s \in ValSteps}
      \cup {[ok |-> TRUE, elems |-> e] :
               e \in {x \in UNION {[1..n -> ValElems] : n \in 0..MaxValElems} : WellFormed(x)}}
      \cup {[ok |-> TRUE, elems |-> e] : e \in IdListings(MaxIdElems)}
      \cup {Unreadable}

InitValidate ==
    /\ WatchIdle
    /\ fs \in [{P1} -> ValFileContents]
    /\ options \in {DefaultOptions,
                     [DefaultOptions EXCEPT !.enforceUniqueTestIdsPerContext = FALSE]}
    /\ dslCheck = NoDslCheck
    /\ messages = <<>>
    /\ validation = NoValidation
    /\ fileResults = <<>>
    /\ chkPc = "input"
    /\ GenIdle
    /\ LexIdle
    /\ ScanIdle

\* validateFile(P1, options) is called and returns
ValidateOne ==
    /\ chkPc = "input"
    /\ messages' = validateFile(P1, options)
    /\ chkPc' = "validateFile"
    /\ UNCHANGED <<fs, dslCheck, validation, options, fileResults>>
    /\ UNCHANGED genVars
    /\ UNCHANGED lexVars
    /\ UNCHANGED scanVars
    /\ UNCHANGED watchVars

NextValidate == ValidateOne

SpecValidate == InitValidate /\ [][NextValidate]_vars

-----------------------------------------------------------------------------
(* validateFiles on a list of files                                        *)

\* the number of paths in the list handed to validateFiles
MaxListed == 2

\* the files validateFiles is run on: a file that cannot be read, a file
\* without messages, and files with an error, with a warning, with both, and
\* with a repeated identifier
ListedElems ==
    {<<>>}
      \cup {<<Elem(0, CTX_A, SCN_S, Undefined, Undefined, Undefined, Undefined),
              Elem(1, Undefined, Undefined, Undefined, TID_T, x[1], x[2])>> :
                 x \in {<<CLICK, Undefined>>, <<SWIPE, Undefined>>, <<Undefined, SWIPE>>}}
      \cup {<<Elem(0, CTX_A, SCN_S, Undefined, Undefined, Undefined, Undefined),
              Elem(1, Undefined, Undefined, Undefined, Undefined, x, Undefined)>> :
                 x \in {TYPE \o <<":", "e">>, SWIPE}}
      \cup {<<Elem(0, CTX_A, SCN_S, Undefined, Undefined, Undefined, Undefined),
              Elem(1, Undefined, Undefined, Undefined, TID_T, Undefined, Undefined),
              Elem(1, Undefined, Undefined, Undefined, TID_T, Undefined, Undefined)>>}

ListedFileContents == {[ok |-> TRUE, elems |-> e] : e \in ListedElems} \cup {Unreadable}

\* the lists of at most n paths; a path may be listed twice
PathLists(n) == UNION {[1..k -> Paths] : k \in 0..n}

InitValidateFiles ==
    /\ WatchIdle
    /\ fs \in [Paths -> ListedFileContents]
    /\ globbed \in PathLists(MaxListed)
    /\ options \in {DefaultOptions,
                     [DefaultOptions EXCEPT !.enforceUniqueTestIdsPerContext = FALSE]}
    /\ dslCheck = NoDslCheck
    /\ messages = <<>>
    /\ validation = NoValidation
    /\ fileResults = <<>>
    /\ chkPc = "input"
    /\ ir = NoIR
    /\ out = {}
    /\ report = NoReport
    /\ pc = "off"
    /\ passes = 0
    /\ LexIdle
    /\ ScanIdle

\* validateFiles(globbed, {...options, strict}) is called and returns; the
\* list is validated once in each mode, in either order
ValidateList(strict) ==
    /\ \A k \in 1..Len(fileResults) : fileResults[k].options.strict # strict
    /\ \E opts \in {[options EXCEPT !.strict = strict]} :
           fileResults' = Append(fileResults,
                                 [options |-> opts, result |-> validateFiles(globbed, opts)])
    /\ chkPc' = "validateFiles"
    /\ UNCHANGED <<fs, dslCheck, messages, validation, options>>
    /\ UNCHANGED genVars
    /\ UNCHANGED lexVars
    /\ UNCHANGED scanVars
    /\ UNCHANGED watchVars

NextValidateFiles == ValidateList(FALSE) \/ ValidateList(TRUE)

SpecValidateFiles == InitValidateFiles /\ [][NextValidateFiles]_vars

-----------------------------------------------------------------------------
(* validateIR on constructed IR documents                                  *)

\* the number of steps and expectations an IR document holds at most
MaxIRItems == 2

\* source location of a programmatically constructed record
TestLocation == createLocationRef(P1, 1, Undefined)

IRStep(id, action, selector, value) ==
    [id |-> id, action |-> action, selector |-> selector, source |-> TestLocation,
     value |-> value]

IRExpectation(id, type, selector, value) ==
    [id |-> id, type |-> type, selector |-> selector, source |-> TestLocation,
     value |-> value]

STEP_1 == generateStepId(0)
EXP_1 == generateExpectId(0)

\* steps: complete ones, steps lacking a value, a selector or an id, and a
\* step whose action is outside the enumeration
IRSteps ==
    {IRStep(STEP_1, CLICK, createSelector(TID_T), Undefined),
     IRStep(STEP_1, TYPE, createSelector(TID_T), <<"e">>),
     IRStep(STEP_1, TYPE, createSelector(TID_T), Undefined),
     IRStep(STEP_1, SELECT, createSelector(TID_T), Undefined),
     IRStep(STEP_1, CHANGE, createSelector(TID_T), Undefined),
     IRStep(STEP_1, TAP, createSelector(TID_T), Undefined),
     IRStep(STEP_1, CLICK, NoSelector, Undefined),
     IRStep(STEP_1, KEY, NoSelector, Undefined),
     IRStep(Undefined, CLICK, createSelector(TID_T), Undefined)}

\* expectations: complete ones, expectations lacking a value, a selector or
\* an id, and an expectation whose type is outside the enumeration
IRExpectations ==
    {IRExpectation(EXP_1, E_VISIBLE, createSelector(TID_T), Undefined),
     IRExpectation(EXP_1, E_TEXT, createSelector(TID_T), Undefined),
     IRExpectation(EXP_1, E_VISIBLE, NoSelector, Undefined),
     IRExpectation(EXP_1, E_URL_EXACT, NoSelector, <<"/">>),
     IRExpectation(EXP_1, FOO, createSelector(TID_T), Undefined),
     IRExpectation(Undefined, E_VISIBLE, createSelector(TID_T), Undefined)}

IRCase(id, context, scenario, steps, expectations) ==
    [id |-> id, context |-> context, scenario |-> scenario, type |-> "ui",
     route |-> Undefined, definedAt |-> <<TestLocation>>,
     steps |-> steps, expectations |-> expectations]

IRSuite(id, context, cases) ==
    [id |-> id, context |-> context, cases |-> cases,
     sourceFiles |-> <<[filePath |-> P1, framework |-> "react",
                        language |-> getLanguageFromPath(P1)]>>]

IRDocument(version, suites) ==
    [version |-> version, sourceRoot |-> SourceRoot, suites |-> suites]

CASE_A_S == generateCaseId(CTX_A, SCN_S)

\* a suite with its id and context, or with one of them absent
IRSuiteFlavours == {<<CTX_A, CTX_A>>, <<Undefined, CTX_A>>, <<CTX_A, Undefined>>}

\* a case with its id, context and scenario, or with one of them absent
IRCaseFlavours ==
    {<<CASE_A_S, CTX_A, SCN_S>>, <<Undefined, CTX_A, SCN_S>>,
     <<CASE_A_S, Undefined, SCN_S>>, <<CASE_A_S, CTX_A, Undefined>>}

\* a suite and its case of which at most one lacks something
IRFlavours ==
    {<<s, c>> \in IRSuiteFlavours \X IRCaseFlavours :
        s = <<CTX_A, CTX_A>> \/ c = <<CASE_A_S, CTX_A, SCN_S>>}

\* the numbers of steps and of expectations of one case, and of two cases
IRItemCounts == {x \in (0..MaxIRItems) \X (0..MaxIRItems) : x[1] + x[2] <= MaxIRItems}

IRItemCountsOfTwo ==
    {x \in IRItemCounts \X IRItemCounts : x[1][1] + x[1][2] + x[2][1] + x[2][2] <= MaxIRItems}

\* a document of version 1 or 2 with no suite, or with one suite of no case
IsEmptyIR(testIR) ==
    \E v \in {1, 2} :
        \/ testIR = IRDocument(v, <<>>)
        \/ \E s \in IRSuiteFlavours : testIR = IRDocument(v, <<IRSuite(s[1], s[2], <<>>)>>)

\* a document of version 1 or 2 with one suite of one case
IsOneCaseIR(testIR) ==
    \E v \in {1, 2}, f \in IRFlavours, n \in IRItemCounts :
        \E steps \in [1..n[1] -> IRSteps], expectations \in [1..n[2] -> IRExpectations] :
            testIR = IRDocument(v, <<IRSuite(f[1][1], f[1][2],
                         <<IRCase(f[2][1], f[2][2], f[2][3], steps, expectations)>>)>>)

\* a document of two complete cases, in one suite or in two
IsTwoCaseIR(testIR) ==
    \E n \in IRItemCountsOfTwo :
        \E s1 \in [1..n[1][1] -> IRSteps], e1 \in [1..n[1][2] -> IRExpectations],
           s2 \in [1..n[2][1] -> IRSteps], e2 \in [1..n[2][2] -> IRExpectations] :
            LET c1 == IRCase(CASE_A_S, CTX_A, SCN_S, s1, e1)
                c2 == IRCase(CASE_A_S, CTX_A, SCN_S, s2, e2)
            IN  \/ testIR = IRDocument(1, <<IRSuite(CTX_A, CTX_A, <<c1, c2>>)>>)
                \/ testIR = IRDocument(1, <<IRSuite(CTX_A, CTX_A, <<c1>>),
                                            IRSuite(CTX_B, CTX_B, <<c2>>)>>)

InitIR ==
    /\ WatchIdle
    /\ IsEmptyIR(ir) \/ IsOneCaseIR(ir) \/ IsTwoCaseIR(ir)
    /\ globbed = <<>>
    /\ out = {}
    /\ report = NoReport
    /\ pc = "off"
    /\ passes = 0
    /\ fs = <<>>
    /\ dslCheck = NoDslCheck
    /\ messages = <<>>
    /\ validation = NoValidation
    /\ fileResults = <<>>
    /\ options = DefaultOptions
    /\ chkPc = "input"
    /\ LexIdle
    /\ ScanIdle

\* validateIR(ir) is called and returns
ValidateIRDocument ==
    /\ chkPc = "input"
    /\ validation' = validateIR(ir)
    /\ chkPc' = "validateIR"
    /\ UNCHANGED <<fs, dslCheck, messages, options, fileResults>>
    /\ UNCHANGED genVars
    /\ UNCHANGED lexVars
    /\ UNCHANGED scanVars
    /\ UNCHANGED watchVars

NextIR == ValidateIRDocument

SpecIR == InitIR /\ [][NextIR]_vars

-----------------------------------------------------------------------------
(* The generate pipeline                                                   *)

Init ==
    /\ WatchIdle
    /\ fs \in GenTrees
    /\ globbed \in UNION {[1..n -> Paths] : n \in 0..MaxFiles}
    /\ ir = NoIR
    /\ out = {}
    /\ report = NoReport
    /\ pc = "idle"
    /\ passes = 0
    /\ ScanIdle
    /\ LexIdle
    /\ ChkIdle

Next == RunGenerate

Spec == Init /\ [][Next]_vars

-----------------------------------------------------------------------------
(* The generate pipeline on files whose names contain the separator        *)

\* the length of a context or scenario name
MaxNameLen == 2

\* context and scenario names: a letter and the underscore "__" is made of
SeparatorNames == UNION {[1..n -> {"a", "_"}] : n \in 1..MaxNameLen}

\* a file of one context-declaring element
OneContextFile(context, scenario) ==
    [ok |-> TRUE,
     elems |-> <<Elem(0, context, scenario, Undefined, Undefined, Undefined, Undefined)>>]

\* two files of one context element each, both listed
InitNames ==
    /\ WatchIdle
    /\ \E c1 \in SeparatorNames, c2 \in SeparatorNames,
          s1 \in SeparatorNames \cup {Undefined}, s2 \in SeparatorNames \cup {Undefined} :
           fs = [p \in Paths |-> IF p = P1 THEN OneContextFile(c1, s1)
                                 ELSE OneContextFile(c2, s2)]
    /\ globbed = <<P1, P2>>
    /\ ir = NoIR
    /\ out = {}
    /\ report = NoReport
    /\ pc = "idle"
    /\ passes = 0
    /\ ScanIdle
    /\ LexIdle
    /\ ChkIdle

SpecNames == InitNames /\ [][Next]_vars

-----------------------------------------------------------------------------
(* Watch mode (runWatch)                                                   *)
(*                                                                         *)
(* runWatch awaits the initial runGenerate, then sets up the watcher.  A   *)
(* change or add event calls scheduleRegenerate; the timeout it arms calls *)
(* regenerate 300 ms later unless a later event cleared it.  regenerate    *)
(* suspends at `await glob(pattern)` once per source glob, and handlers of *)
(* events and timeouts run while it is suspended; the scan and the writes  *)
(* that follow the last glob run without suspension.                       *)

\* the number of change and add events of one run
MaxEvents == 3

\* DEFAULT_CONFIG.sourceGlobs, by the suffix each pattern selects
sourceGlobs == <<<<".", "t", "s", "x">>, <<".", "j", "s", "x">>>>

EndsWith(s, suffix) ==
    /\ Len(s) >= Len(suffix)
    /\ SubSeq(s, Len(s) - Len(suffix) + 1, Len(s)) = suffix

\* the matches of one pattern in the source tree
glob(pattern) == SelectSeq(<<P1, P2>>, LAMBDA p : EndsWith(p, pattern))

clearTimeoutIfSetKept(timer, pending) == pending

\* if (debounceTimer !== null) clearTimeout(debounceTimer): the handle is
\* that of the timeout armed last, and clearing one that fired does nothing
clearTimeoutIfSet(timer, pending) == IF timer # "null" THEN 0 ELSE pending

timersAfterScheduleNoRearm(timer, pending) == IF timer = "null" THEN 1 ELSE 0

\* the pending timeouts after scheduleRegenerate: the old one cleared, a new one armed
timersAfterSchedule(timer, pending) == clearTimeoutIfSet(timer, pending) + 1

\* the contents a watched file is saved with: no directives, or a context
\* with one step
WatchContents ==
    {[ok |-> TRUE, elems |-> <<>>],
     [ok |-> TRUE,
      elems |-> <<Elem(0, CTX_A, Undefined, Undefined, Undefined, Undefined, Undefined),
                  Elem(1, Undefined, Undefined, Undefined, TID_T, CLICK, Undefined)>>]}

InitWatch ==
    /\ WatchIdle
    /\ fs \in [Paths -> WatchContents]
    /\ globbed = glob(sourceGlobs[1]) \o glob(sourceGlobs[2])
    /\ ir = NoIR
    /\ out = {}
    /\ report = NoReport
    /\ pc = "idle"
    /\ passes = 0
    /\ ScanIdle
    /\ LexIdle
    /\ ChkIdle

\* await runGenerate(options): the initial generation, before the watcher exists
InitialGenerate ==
    /\ pc = "idle"
    /\ RunGenerate

\* watcher.on("change") and watcher.on("add"): the file was saved with some
\* contents, and the handler calls scheduleRegenerate(filePath)
FileChangedOrAdded(filePath) ==
    /\ pc = "done"
    /\ events < MaxEvents
    /\ changedFiles' = changedFiles \cup {filePath}
    /\ pendingTimers' = timersAfterSchedule(debounceTimer, pendingTimers)
    /\ debounceTimer' = "set"
    /\ events' = events + 1
    /\ burst' = IF pendingTimers > 0 THEN burst \cup {filePath} ELSE {filePath}
    /\ bursts' = IF pendingTimers > 0 THEN bursts ELSE bursts + 1
    /\ uncovered' = uncovered \cup {filePath}
    /\ inFlight' = [k \in 1..Len(inFlight) |->
                       [inFlight[k] EXCEPT !.covers = @ \ {filePath}]]
    /\ regenerations' = regenerations
    /\ \E content \in WatchContents : fs' = [fs EXCEPT ![filePath] = content]
    /\ UNCHANGED genVars
    /\ UNCHANGED lexVars
    /\ UNCHANGED scanVars
    /\ UNCHANGED chkVars

\* a timeout fires and calls regenerate, which returns at once when
\* changedFiles is empty and otherwise takes the batch, clears changedFiles
\* and suspends at the first glob
TimeoutFires ==
    /\ pendingTimers > 0
    /\ pendingTimers' = pendingTimers - 1
    /\ burst' = {}
    /\ IF changedFiles = {}
       THEN UNCHANGED <<changedFiles, inFlight, regenerations>>
       ELSE /\ changedFiles' = {}
            /\ inFlight' = Append(inFlight,
                                  [files |-> changedFiles, pattern |-> 1,
                                   allSourceFiles |-> <<>>, covers |-> uncovered])
            /\ regenerations' = regenerations + 1
    /\ UNCHANGED <<debounceTimer, events, bursts, uncovered>>
    /\ UNCHANGED <<fs, genVars>>
    /\ UNCHANGED lexVars
    /\ UNCHANGED scanVars
    /\ UNCHANGED chkVars

\* a sequence without its k-th element
RemoveAt(seq, k) == SubSeq(seq, 1, k - 1) \o SubSeq(seq, k + 1, Len(seq))

\* a glob of the k-th suspended regenerate resolves, and another pattern is left
GlobResolves(k) ==
    /\ k \in 1..Len(inFlight)
    /\ inFlight[k].pattern < Len(sourceGlobs)
    /\ inFlight' = [inFlight EXCEPT
                        ![k].allSourceFiles = @ \o glob(sourceGlobs[inFlight[k].pattern]),
                        ![k].pattern = @ + 1]
    /\ UNCHANGED <<changedFiles, debounceTimer, pendingTimers, events, burst, bursts,
                   regenerations, uncovered>>
    /\ UNCHANGED <<fs, genVars>>
    /\ UNCHANGED lexVars
    /\ UNCHANGED scanVars
    /\ UNCHANGED chkVars

\* the last glob of the k-th suspended regenerate resolves: the scan of all
\* matches and the generation run to their end
LastGlobResolves(k) ==
    /\ k \in 1..Len(inFlight)
    /\ inFlight[k].pattern = Len(sourceGlobs)
    /\ \E allSourceFiles \in
             {inFlight[k].allSourceFiles \o glob(sourceGlobs[inFlight[k].pattern])} :
           \E newIR \in {scanAllFiles(allSourceFiles)} :
               /\ ir' = newIR
               /\ IF Len(newIR.suites) > 0
                  THEN \E res \in {generateAllTestFiles(newIR, out)} :
                           /\ out' = res.files
                           /\ report' = [totalVitest |-> res.totalVitest,
                                         totalE2e |-> res.totalE2e]
                  ELSE UNCHANGED <<out, report>>
    /\ uncovered' = uncovered \ inFlight[k].covers
    /\ inFlight' = RemoveAt(inFlight, k)
    /\ UNCHANGED <<changedFiles, debounceTimer, pendingTimers, events, burst, bursts,
                   regenerations>>
    /\ UNCHANGED <<fs, globbed, pc, passes>>
    /\ UNCHANGED lexVars
    /\ UNCHANGED scanVars
    /\ UNCHANGED chkVars

GlobStep == \E k \in 1..MaxEvents : GlobResolves(k) \/ LastGlobResolves(k)

NextWatch ==
    \/ InitialGenerate
    \/ \E filePath \in Paths : FileChangedOrAdded(filePath)
    \/ TimeoutFires
    \/ GlobStep

SpecWatch == InitWatch /\ [][NextWatch]_vars

\* what a resolving glob does to the suspended calls of regenerate: the
\* k-th call moves to its next pattern, or past its last one to its end.
\* No other step of NextWatch changes inFlight in this way.
GlobProgress ==
    \E k \in 1..Len(inFlight) :
        inFlight' = IF inFlight[k].pattern < Len(sourceGlobs)
                    THEN [inFlight EXCEPT ![k].pattern = @ + 1,
                                          ![k].allSourceFiles =
                                              @ \o glob(sourceGlobs[inFlight[k].pattern])]
                    ELSE RemoveAt(inFlight, k)

\* timeouts eventually fire, and the globs a pass awaits eventually resolve
SpecWatchFair ==
    /\ SpecWatch
    /\ WF_vars(TimeoutFires)
    /\ WF_inFlight(GlobProgress)

-----------------------------------------------------------------------------
(* Properties of the step lexer.  The segments of a directive are located  *)
(* here by position in the raw text, independently of the lexer's own      *)
(* split / trim / filter.                                                  *)

\* positions at which a ';'-separated segment of s begins
SegStarts(s) == {i \in 1..(Len(s) + 1) : i = 1 \/ s[i - 1] = ";"}

\* position just after the segment that begins at i
SegEnd(s, i) ==
    CHOOSE j \in i..(Len(s) + 1) :
        /\ j = Len(s) + 1 \/ s[j] = ";"
        /\ \A m \in i..(j - 1) : s[m] # ";"

SegText(s, i) == SubSeq(s, i, SegEnd(s, i) - 1)

NonBlank(t) == \E p \in 1..Len(t) : t[p] \notin WhiteSpace

\* segments that are non-empty after trimming
LiveSegStarts(s) == {i \in SegStarts(s) : NonBlank(SegText(s, i))}

NumLiveSegs(s) == Cardinality(LiveSegStarts(s))

NthLiveSeg(s, k) ==
    SegText(s, CHOOSE i \in LiveSegStarts(s) :
                  Cardinality({j \in LiveSegStarts(s) : j < i}) = k - 1)

\* the name of a segment: the text before its first ':' (all of it when it has none)
SegName(t) ==
    LET seg == Trim(t)
        colons == {p \in 1..Len(seg) : seg[p] = ":"}
    IN  IF colons = {} THEN seg
        ELSE Trim(SubSeq(seg, 1, (CHOOSE p \in colons : \A q \in colons : p <= q) - 1))

\* a name of the StepAction enumeration, in some letter-casing
EnumMemberOf(name) == {m \in StepAction : ToLowerCase(m) = ToLowerCase(name)}

\* C6: parseStepDsl returns exactly one step per ';'-separated segment that is
\* non-empty after trimming, and the k-th step is the one the k-th such
\* segment yields on its own.
C6_OneStepPerLiveSegment ==
    lexPc = "steps" =>
        /\ Len(parsedSteps) = NumLiveSegs(dsl)
        /\ \A k \in 1..NumLiveSegs(dsl) :
               parseStepDsl(NthLiveSeg(dsl, k)) = <<parsedSteps[k]>>

\* C6 witness: a directive with three segments, one of them blank, lexed to two steps
C6_Witness ==
    /\ lexPc = "steps"
    /\ Cardinality(SegStarts(dsl)) = 3
    /\ Len(parsedSteps) = 2

\* C7: a raw value that is a JSON array yields one record per array element,
\* taken from the element's action / assert field; the string grammar is not used.
C7_JsonArrayUsedDirectly ==
    jsonSrc.json =>
        LET arr == jsonSrc.elems
        IN  /\ lexPc = "steps" /\ (\A i \in 1..Len(arr) : arr[i].key = J_ACTION)
                  => /\ Len(parsedSteps) = Len(arr)
                     /\ \A i \in 1..Len(arr) : parsedSteps[i].action = arr[i].name
            /\ lexPc = "expects" /\ (\A i \in 1..Len(arr) : arr[i].key = J_ASSERT)
                  => /\ Len(parsedExpects) = Len(arr)
                     /\ \A i \in 1..Len(arr) : parsedExpects[i].type = arr[i].name

\* C8: a segment whose name is a member of the StepAction enumeration, in any
\* letter-casing, parses to a step whose action is that member.
C8_EveryEnumCasingParses ==
    lexPc = "steps" =>
        \A k \in 1..NumLiveSegs(dsl) :
            \A m \in EnumMemberOf(SegName(NthLiveSeg(dsl, k))) :
                /\ k <= Len(parsedSteps)
                /\ parsedSteps[k].action = m

\* C9: a segment whose name is no StepAction member (in any casing) yields
\* exactly one step, with action "custom" and the whole trimmed segment in its
\* original casing as value; the steps of the other segments are what those
\* segments yield on their own.
C9_UnknownNameBecomesCustom ==
    lexPc = "steps" =>
        \A k \in 1..NumLiveSegs(dsl) :
            EnumMemberOf(SegName(NthLiveSeg(dsl, k))) = {} =>
                /\ Len(parsedSteps) = NumLiveSegs(dsl)
                /\ parsedSteps[k] = [action |-> CUSTOM, value |-> Trim(NthLiveSeg(dsl, k))]
                /\ \A j \in 1..NumLiveSegs(dsl) :
                       parseStepDsl(NthLiveSeg(dsl, j)) = <<parsedSteps[j]>>

\* C9 witness: "K;key" lexed: the unknown name K kept as a custom step, key unaffected
C9_Witness ==
    /\ lexPc = "steps"
    /\ parsedSteps = <<[action |-> CUSTOM, value |-> <<"K">>],
                       [action |-> KEY, value |-> Undefined]>>

-----------------------------------------------------------------------------
(* Properties of the merger and of the generate pipeline                   *)

\* the scenario name a context element declares
ScenarioOf(e) == IF e.scenario # Undefined THEN e.scenario ELSE DEFAULT

\* the context elements of a readable file that declare (context, scenario)
Declaring(path, context, scenario) ==
    {i \in 1..Len(fs[path].elems) :
        /\ fs[path].elems[i].context = context
        /\ ScenarioOf(fs[path].elems[i]) = scenario}

Readable(path) == fs[path].ok

\* the listed files, in list order, that can be read
ReadableListed == SelectSeq(globbed, Readable)

\* positions in the list of the readable files that declare (context, scenario)
DefiningPositions(context, scenario) ==
    {k \in 1..Len(globbed) :
        Readable(globbed[k]) /\ Declaring(globbed[k], context, scenario) # {}}

\* all <<suite index, case index>> of a list of suites, and of the IR
CasesOfSuites(suites) ==
    UNION {{<<u, v>> : v \in 1..Len(suites[u].cases)} : u \in 1..Len(suites)}

CasesOf(testIR) == CasesOfSuites(testIR.suites)

CaseAt(testIR, sc) == testIR.suites[sc[1]].cases[sc[2]]

\* what the steps, or the expectations, of a case do, without their ids
StepContents(steps) ==
    [k \in 1..Len(steps) |->
        [action |-> steps[k].action, selector |-> steps[k].selector, value |-> steps[k].value]]

ExpectContents(expectations) ==
    [k \in 1..Len(expectations) |->
        [type |-> expectations[k].type, selector |-> expectations[k].selector,
         value |-> expectations[k].value]]

\* the Case built for the context element at position i of a file
CaseOfElement(path, i) ==
    BuildTestCase([context |-> fs[path].elems[i].context,
                   scenario |-> fs[path].elems[i].scenario,
                   route |-> fs[path].elems[i].route,
                   location |-> createLocationRef(path, i,
                                    <<"c","o","n","t","e","x","t","=">> \o fs[path].elems[i].context),
                   children |-> ChildrenFrom(path, fs[path].elems, i, i + 1)])

\* C2: when two context elements of one file have the same (context, scenario),
\* scanFile returns one Case for the pair, whose steps are the first element's
\* steps followed by the second's, and likewise its expectations.
C2_SamePairExtendsCase ==
    scanPc = "done" =>
        \A c \in {CTX_A, CTX_B}, s \in {DEFAULT, SCN_S} :
            LET occ == Declaring(P1, c, s)
                i1 == CHOOSE i \in occ : \A j \in occ : i <= j
                i2 == CHOOSE i \in occ : \A j \in occ : j <= i
                hits == {sc \in CasesOfSuites(scanned) :
                            /\ scanned[sc[1]].cases[sc[2]].context = c
                            /\ scanned[sc[1]].cases[sc[2]].scenario = s}
            IN  Cardinality(occ) = 2 =>
                    /\ Cardinality(hits) = 1
                    /\ \A sc \in hits :
                           /\ StepContents(scanned[sc[1]].cases[sc[2]].steps)
                                  = StepContents(CaseOfElement(P1, i1).steps)
                                      \o StepContents(CaseOfElement(P1, i2).steps)
                           /\ ExpectContents(scanned[sc[1]].cases[sc[2]].expectations)
                                  = ExpectContents(CaseOfElement(P1, i1).expectations)
                                      \o ExpectContents(CaseOfElement(P1, i2).expectations)

\* C1: when two or more files of the list define the same (context, scenario),
\* the IR holds exactly one Case with id context__scenario, and it is a Case
\* of the earliest such file.
C1_FirstFileWins ==
    pc = "done" /\ Len(globbed) > 0 =>
        \A c \in {CTX_A}, s \in {DEFAULT, SCN_S} :
            LET pos == DefiningPositions(c, s)
                files == {globbed[k] : k \in pos}
                first == globbed[CHOOSE k \in pos : \A m \in pos : k <= m]
                hits == {sc \in CasesOf(ir) : CaseAt(ir, sc).id = generateCaseId(c, s)}
            IN  Cardinality(files) >= 2 =>
                    /\ Cardinality(hits) = 1
                    /\ \A sc \in hits :
                           \E u \in 1..Len(scanFile(first)) :
                               \E v \in 1..Len(scanFile(first)[u].cases) :
                                   scanFile(first)[u].cases[v] = CaseAt(ir, sc)

\* whether the validator reports an error on a case
CaseHasError(testCase, suiteId) ==
    \E i \in 1..Len(validateTestCase(testCase, suiteId)) :
        validateTestCase(testCase, suiteId)[i].severity = "error"

OutPaths == {f.path : f \in out}

\* C3: a generation pass writes no file for a Case on which the validator
\* reports an error, and writes both files of every Case without one.
C3_NoOutputForInvalidCase ==
    pc = "done" =>
        \A sc \in CasesOf(ir) :
            LET testCase == CaseAt(ir, sc)
                vitestPath == PathJoin(VitestOutDir, generateVitestFileName(testCase))
                e2ePath == PathJoin(E2eOutDir, generatePlaywrightFileName(testCase))
            IN  IF CaseHasError(testCase, ir.suites[sc[1]].id)
                THEN vitestPath \notin OutPaths /\ e2ePath \notin OutPaths
                ELSE vitestPath \in OutPaths /\ e2ePath \in OutPaths

\* C4: scanAllFiles returns, for a list in which scanFile throws on some files,
\* the suites it returns for the list without those files.
C4_FailingFilesContributeNothing ==
    pc = "done" /\ Len(globbed) > 0 =>
        ir.suites = scanAllFiles(ReadableListed).suites

\* C4 witness: a file that throws is listed after a file that gave a suite
C4_Witness ==
    /\ pc = "done"
    /\ Len(globbed) = 2
    /\ Readable(globbed[1])
    /\ ~Readable(globbed[2])
    /\ Len(ir.suites) > 0

\* C5: no two Suites of the IR have the same context, no Suite lists a file
\* path twice, and a Suite lists every readable file of the list that declares
\* its context.
C5_SuitesAndSourceFilesUnique ==
    pc = "done" /\ Len(globbed) > 0 =>
        /\ \A i, j \in 1..Len(ir.suites) :
               ir.suites[i].context = ir.suites[j].context => i = j
        /\ \A i \in 1..Len(ir.suites) :
               \A a, b \in 1..Len(ir.suites[i].sourceFiles) :
                   ir.suites[i].sourceFiles[a].filePath = ir.suites[i].sourceFiles[b].filePath
                       => a = b
        /\ \A k \in 1..Len(globbed) :
               Readable(globbed[k]) =>
                   \A e \in 1..Len(fs[globbed[k]].elems) :
                       fs[globbed[k]].elems[e].context # Undefined =>
                           \E i \in 1..Len(ir.suites) :
                               /\ ir.suites[i].context = fs[globbed[k]].elems[e].context
                               /\ \E a \in 1..Len(ir.suites[i].sourceFiles) :
                                      ir.suites[i].sourceFiles[a].filePath = globbed[k]

\* C5 witness: the same file listed twice, and its suite lists it once
C5_Witness ==
    /\ pc = "done"
    /\ Len(globbed) = 2
    /\ globbed[1] = globbed[2]
    /\ Len(ir.suites) = 2
    /\ Len(ir.suites[1].sourceFiles) = 1

\* the element a step was built from
SourceElem(step) == fs[step.source.filePath].elems[step.source.line]

\* C10: a step directive with an unknown action name gives a custom Step, and
\* validating it reports a warning for that step and no error.
C10_UnknownActionWarned ==
    pc = "done" =>
        \A sc \in CasesOf(ir) :
            \A k \in 1..Len(CaseAt(ir, sc).steps) :
                LET step == CaseAt(ir, sc).steps[k]
                    issues == validateStep(step, [suite |-> ir.suites[sc[1]].id,
                                                  case |-> CaseAt(ir, sc).id])
                IN  EnumMemberOf(SegName(SourceElem(step).step)) = {} =>
                        /\ step.action = CUSTOM
                        /\ \E i \in 1..Len(issues) : issues[i].severity = "warning"
                        /\ \A i \in 1..Len(issues) : issues[i].severity # "error"

-----------------------------------------------------------------------------
(* Properties of validateFile                                              *)

\* the lower-cased names of the live segments of a directive, in segment order
SegNames(s) == [k \in 1..NumLiveSegs(s) |-> ToLowerCase(SegName(NthLiveSeg(s, k)))]

\* positions of the segments whose action validateFile does not recognise
UnrecognisedSegs(s) ==
    {k \in 1..NumLiveSegs(s) : ~Includes(VALID_STEP_ACTIONS, SegNames(s)[k])}

\* the invalid-action messages reported for the element at a line
InvalidActionAt(line) ==
    {k \in 1..Len(messages) :
        messages[k].ruleId = "invalid-action" /\ messages[k].line = line}

-----------------------------------------------------------------------------
(* Properties of the expectation lexer and of validateExpectDsl            *)

\* C12: every hyphenated, underscored or no-separator spelling of a
\* multi-word expectation type, in any letter-casing, is resolved by
\* normalizeExpectType to the hyphenated type and accepted by validateExpectDsl.
C12_SpellingsResolveToCanonical ==
    \A m \in MultiWordTypes :
        ToLowerCase(dsl) \in Spellings(m) =>
            /\ lexPc = "expects" => parsedExpects = <<[type |-> m, value |-> Undefined]>>
            /\ chkPc = "validateExpectDsl" => dslCheck = DslValid

\* C12 witness: "NotHasClass" lexed to not-has-class and accepted by validateExpectDsl
C12_Witness ==
    /\ dsl = <<"N","o","t","H","a","s","C","l","a","s","s">>
    /\ lexPc = "expects"
    /\ chkPc = "validateExpectDsl"
    /\ parsedExpects = <<[type |-> E_NOT_HAS_CLASS, value |-> Undefined]>>
    /\ dslCheck.valid

\* the ExpectType member a segment name is a spelling of, if any
TypeOfName(name) == {m \in ExpectType : ToLowerCase(name) \in Spellings(m)}

\* the live segments of a directive whose type name is recognised, in order
RECURSIVE RecognisedFrom(_, _)
RecognisedFrom(s, k) ==
    IF k > NumLiveSegs(s) THEN <<>>
    ELSE (IF TypeOfName(SegName(NthLiveSeg(s, k))) # {}
          THEN <<NthLiveSeg(s, k)>> ELSE <<>>)
         \o RecognisedFrom(s, k + 1)

\* C13: parseExpectDsl returns exactly one expectation per segment whose type
\* name is recognised, in segment order and with the type of that segment,
\* and no record for a segment whose type name is not recognised.
C13_UnknownTypeDropped ==
    lexPc = "expects" =>
        LET rec == RecognisedFrom(dsl, 1)
        IN  /\ Len(parsedExpects) = Len(rec)
            /\ \A k \in 1..Len(rec) :
                   parsedExpects[k].type \in TypeOfName(SegName(rec[k]))

-----------------------------------------------------------------------------
(* Properties of the Cases scanFile builds                                 *)

\* the items of a list of steps or expectations that come from the element at a line
RECURSIVE FromLine(_, _)
FromLine(items, line) ==
    IF items = <<>> THEN <<>>
    ELSE (IF Head(items).source.line = line THEN <<Head(items)>> ELSE <<>>)
         \o FromLine(Tail(items), line)

\* what the lexer returns for an attribute, nothing for an absent attribute
StepsOfAttr(step) == IF step = Undefined THEN <<>> ELSE parseStepDsl(step)

ExpectsOfAttr(expect) == IF expect = Undefined THEN <<>> ELSE parseExpectDsl(expect)

\* a list is in document order when the lines of its items never decrease
InDocumentOrder(items) ==
    \A k, l \in 1..Len(items) : k < l => items[k].source.line <= items[l].source.line

\* C14: in every Case of scanFile the k-th step has id step-k and the k-th
\* expectation id exp-k, steps and expectations are in the document order of
\* their elements, and those of one element are in the order of its segments.
C14_IdsGapFreeInDocumentOrder ==
    scanPc = "done" =>
        \A sc \in CasesOfSuites(scanned) :
            LET case == scanned[sc[1]].cases[sc[2]]
            IN  /\ \A k \in 1..Len(case.steps) :
                       case.steps[k].id = <<"s","t","e","p","-">> \o <<Digits[k + 1]>>
                /\ \A k \in 1..Len(case.expectations) :
                       case.expectations[k].id = <<"e","x","p","-">> \o <<Digits[k + 1]>>
                /\ InDocumentOrder(case.steps)
                /\ InDocumentOrder(case.expectations)
                /\ \A line \in 1..Len(fs[P1].elems) :
                       LET e == fs[P1].elems[line]
                           steps == FromLine(case.steps, line)
                           expects == FromLine(case.expectations, line)
                       IN  /\ steps # <<>> =>
                                  [k \in 1..Len(steps) |->
                                      [action |-> steps[k].action, value |-> steps[k].value]]
                                      = StepsOfAttr(e.step)
                           /\ expects # <<>> =>
                                  [k \in 1..Len(expects) |->
                                      [type |-> expects[k].type, value |-> expects[k].value]]
                                      = ExpectsOfAttr(e.expect)

\* C14 witness: a Case with at least two steps, built from a context element
\* that also holds an element whose step directive was dropped
C14_Witness ==
    /\ scanPc = "done"
    /\ \E sc \in CasesOfSuites(scanned) :
           LET case == scanned[sc[1]].cases[sc[2]]
           IN  /\ Len(case.steps) >= 2
               /\ case.steps[2].id = <<"s","t","e","p","-","2">>
               /\ \E line \in Descendants(fs[P1].elems, case.definedAt[1].line) :
                      /\ fs[P1].elems[line].testId = Undefined
                      /\ fs[P1].elems[line].step # Undefined
                      /\ line < case.steps[1].source.line

C16_SelectorPriority ==
    scanPc = "done" =>
        \A sc \in CasesOfSuites(scanned) :
            LET case == scanned[sc[1]].cases[sc[2]]
            IN  \A line \in Descendants(fs[P1].elems, case.definedAt[1].line) :
                    LET e == fs[P1].elems[line]
                        steps == FromLine(case.steps, line)
                    IN  e.role # Undefined /\ e.step # Undefined =>
                            /\ Len(steps) = Len(StepsOfAttr(e.step))
                            /\ \A k \in 1..Len(steps) :
                                   steps[k].selector =
                                       IF e.testId # Undefined
                                       THEN [type |-> "testId", value |-> e.testId]
                                       ELSE [type |-> "role", value |-> e.role]

\* element i of a listing encloses element j: j comes after i and every
\* element from i + 1 to j lies deeper than i
Encloses(elems, i, j) ==
    /\ i < j
    /\ j <= Len(elems)
    /\ \A m \in (i + 1)..j : elems[m].depth > elems[i].depth

\* the Cases of the scan result that were built for the element at a line
CasesDefinedAt(line) ==
    {sc \in CasesOfSuites(scanned) : scanned[sc[1]].cases[sc[2]].definedAt[1].line = line}

\* C29: every context-declaring element has its Case, and the Case of a
\* context-declaring element holds the directives of exactly the elements it
\* encloses, at any depth and whether or not another context-declaring
\* element lies in between: an element enclosed by an inner and an outer
\* context element appears in both Cases, and the directives on a
\* context-declaring element itself are not in its own Case.
C29_EveryEnclosingContextGetsDirective ==
    scanPc = "done" =>
        \A i \in 1..Len(fs[P1].elems) :
            fs[P1].elems[i].context # Undefined =>
                /\ Cardinality(CasesDefinedAt(i)) = 1
                /\ \A sc \in CasesDefinedAt(i) :
                       LET case == scanned[sc[1]].cases[sc[2]]
                       IN  \A j \in 1..Len(fs[P1].elems) :
                               LET e == fs[P1].elems[j]
                                   steps == FromLine(case.steps, j)
                                   expects == FromLine(case.expectations, j)
                               IN  IF Encloses(fs[P1].elems, i, j)
                                   THEN /\ Len(expects) = Len(ExpectsOfAttr(e.expect))
                                        /\ e.testId # Undefined =>
                                               Len(steps) = Len(StepsOfAttr(e.step))
                                   ELSE steps = <<>> /\ expects = <<>>

\* C29 witness: an inner context element that carries a step itself, inside
\* an outer one, and an element with a step inside the inner one: the outer
\* Case holds both steps, the inner Case only the second
C29_Witness ==
    /\ scanPc = "done"
    /\ \E i, j, k \in 1..Len(fs[P1].elems) :
           /\ fs[P1].elems[i].context # Undefined
           /\ fs[P1].elems[j].context # Undefined
           /\ Encloses(fs[P1].elems, i, j)
           /\ Encloses(fs[P1].elems, j, k)
           /\ \E outer \in CasesDefinedAt(i), inner \in CasesDefinedAt(j) :
                  LET co == scanned[outer[1]].cases[outer[2]]
                      ci == scanned[inner[1]].cases[inner[2]]
                  IN  /\ FromLine(co.steps, j) # <<>>
                      /\ FromLine(co.steps, k) # <<>>
                      /\ FromLine(ci.steps, j) = <<>>
                      /\ FromLine(ci.steps, k) # <<>>
                      /\ FromLine(ci.expectations, j) = <<>>

\* the innermost context-declaring element that encloses element j, 0 for none
InnermostContext(elems, j) ==
    LET enclosing == {i \in 1..(j - 1) : elems[i].context # Undefined /\ Encloses(elems, i, j)}
    IN  IF enclosing = {} THEN 0 ELSE CHOOSE i \in enclosing : \A m \in enclosing : m <= i

\* the lines of the elements whose data-test-id already occurred on an
\* earlier element inside the same context-declaring element
RepeatedIds(elems) ==
    {j \in 1..Len(elems) :
        /\ elems[j].testId # Undefined
        /\ InnermostContext(elems, j) # 0
        /\ \E k \in 1..(j - 1) :
               /\ elems[k].testId = elems[j].testId
               /\ InnermostContext(elems, k) = InnermostContext(elems, j)}

\* the duplicate-test-id messages validateFile returned for a line
DuplicateIdMessages(line) ==
    {k \in 1..Len(messages) :
        messages[k].ruleId = "duplicate-test-id" /\ messages[k].line = line}

\* C25: with unique-id enforcement on, validateFile emits one
\* duplicate-test-id warning for every occurrence of a data-test-id value
\* after its first occurrence inside the same context-declaring element and
\* none for any other element; with enforcement off it emits none.
C25_OneWarningPerRepeatedId ==
    (chkPc = "validateFile" /\ fs[P1].ok) =>
        \A j \in 1..Len(fs[P1].elems) :
            /\ \A k \in DuplicateIdMessages(j) : messages[k].severity = "warning"
            /\ Cardinality(DuplicateIdMessages(j)) =
                   IF options.enforceUniqueTestIdsPerContext /\ j \in RepeatedIds(fs[P1].elems)
                   THEN 1 ELSE 0

-----------------------------------------------------------------------------
(* Properties of validateIR                                                *)

\* validateIR has returned
Validated == chkPc = "validateIR"

RECURSIVE NumberOfSeverity(_, _)
NumberOfSeverity(issues, severity) ==
    IF issues = <<>> THEN 0
    ELSE (IF Head(issues).severity = severity THEN 1 ELSE 0)
             + NumberOfSeverity(Tail(issues), severity)

\* C17: for every IR, validateIR returns valid = true exactly when no
\* returned issue has severity error; errorCount and warningCount are the
\* numbers of error-severity and of warning-severity issues in the returned
\* list, so no number of warning or info issues makes valid false.
C17_ValidIffNoErrors ==
    Validated =>
        /\ validation.valid
               <=> (\A i \in 1..Len(validation.issues) : validation.issues[i].severity # "error")
        /\ validation.errorCount = NumberOfSeverity(validation.issues, "error")
        /\ validation.warningCount = NumberOfSeverity(validation.issues, "warning")

\* a valid result with several warnings and an info issue
C17_Witness ==
    /\ Validated
    /\ validation.valid
    /\ validation.warningCount >= 2
    /\ \E i \in 1..Len(validation.issues) : validation.issues[i].severity = "info"

\* the cases, steps and expectations of an IR, each as a sequence
RECURSIVE AllCases(_)
AllCases(suites) ==
    IF suites = <<>> THEN <<>> ELSE Head(suites).cases \o AllCases(Tail(suites))

RECURSIVE AllSteps(_)
AllSteps(cases) ==
    IF cases = <<>> THEN <<>> ELSE Head(cases).steps \o AllSteps(Tail(cases))

RECURSIVE AllExpectations(_)
AllExpectations(cases) ==
    IF cases = <<>> THEN <<>> ELSE Head(cases).expectations \o AllExpectations(Tail(cases))

StepsOfIR(testIR) == AllSteps(AllCases(testIR.suites))
ExpectationsOfIR(testIR) == AllExpectations(AllCases(testIR.suites))

\* every Suite, Case, Step and Expectation of the IR has its id
EveryEntityHasId(testIR) ==
    /\ \A i \in 1..Len(testIR.suites) : ~Falsy(testIR.suites[i].id)
    /\ LET cases == AllCases(testIR.suites)
       IN  /\ \A i \in 1..Len(cases) : ~Falsy(cases[i].id)
           /\ \A i \in 1..Len(AllSteps(cases)) : ~Falsy(AllSteps(cases)[i].id)
           /\ \A i \in 1..Len(AllExpectations(cases)) : ~Falsy(AllExpectations(cases)[i].id)

\* every Step of the IR has its selector
EveryStepHasSelector(testIR) ==
    \A i \in 1..Len(StepsOfIR(testIR)) : StepsOfIR(testIR)[i].selector # NoSelector

MissingIdMessages ==
    {"TestSuite is missing an ID", "TestCase is missing an ID", "Step is missing an ID",
     "Expectation is missing an ID"}

MissingSelectorMessage == "Step \"${step.id}\" is missing a selector"

\* C18: validateIR reports an error-severity issue only for a Suite, Case,
\* Step or Expectation that lacks its id, or for a Step that lacks its
\* selector; hence an IR in which every entity has an id and every Step has
\* a selector is valid.
C18_ErrorsOnlyForIdOrSelector ==
    Validated =>
        /\ \A i \in 1..Len(validation.issues) :
               validation.issues[i].severity = "error"
                   => validation.issues[i].message \in MissingIdMessages \cup {MissingSelectorMessage}
        /\ (EveryEntityHasId(ir) /\ EveryStepHasSelector(ir)) => validation.valid

\* every Suite and every Case of the IR has its context
EveryEntityHasContext(testIR) ==
    /\ \A i \in 1..Len(testIR.suites) : ~Falsy(testIR.suites[i].context)
    /\ \A i \in 1..Len(AllCases(testIR.suites)) : ~Falsy(AllCases(testIR.suites)[i].context)

NumberOfStepsWithoutSelector(testIR) ==
    Cardinality({i \in 1..Len(StepsOfIR(testIR)) : StepsOfIR(testIR)[i].selector = NoSelector})

\* C19: in an IR that is otherwise free of errors (every entity has its id
\* and its context), each Step without selector adds exactly one
\* error-severity issue "missing a selector": errorCount is the number of
\* these Steps, and one such Step gives valid = false with errorCount = 1
\* whatever the number of warnings.
C19_OneErrorPerSelectorlessStep ==
    (Validated /\ EveryEntityHasId(ir) /\ EveryEntityHasContext(ir)) =>
        /\ validation.errorCount = NumberOfStepsWithoutSelector(ir)
        /\ \A i \in 1..Len(validation.issues) :
               validation.issues[i].severity = "error"
                   => validation.issues[i].message = MissingSelectorMessage
        /\ NumberOfStepsWithoutSelector(ir) = 1
               => (~validation.valid /\ validation.errorCount = 1)

\* one Step without selector, in an IR with two warnings
C19_Witness ==
    /\ Validated
    /\ EveryEntityHasId(ir)
    /\ EveryEntityHasContext(ir)
    /\ NumberOfStepsWithoutSelector(ir) = 1
    /\ validation.errorCount = 1
    /\ ~validation.valid
    /\ validation.warningCount >= 2

MissingValueMessage == "Step \"${step.id}\" with action \"${step.action}\" is missing a value"

\* the Step has one of the actions type, change, key, select and no value
LacksValue(step) == step.action \in {TYPE, CHANGE, KEY, SELECT} /\ step.value = Undefined

NumberOfStepsLackingValue(testIR) ==
    Cardinality({i \in 1..Len(StepsOfIR(testIR)) : LacksValue(StepsOfIR(testIR)[i])})

\* the issues "missing a value" that validateIR reported for Steps
MissingValueIssues ==
    {i \in 1..Len(validation.issues) : validation.issues[i].message = MissingValueMessage}

\* an expectation validateExpectation has nothing to say about
CleanExpectation(e) ==
    /\ ~Falsy(e.id)
    /\ Includes(SUPPORTED_EXPECT_TYPES, e.type)
    /\ e.selector # NoSelector \/ e.type \in {E_URL_CONTAINS, E_URL_EXACT}
    /\ e.value # Undefined
           \/ e.type \notin {E_TEXT, E_EXACT_TEXT, E_VALUE, E_HAS_CLASS, E_NOT_HAS_CLASS,
                             E_ARIA, E_URL_CONTAINS, E_URL_EXACT}

\* an IR in which nothing but Steps lacking a value can be reported
CleanButForValues(testIR) ==
    /\ testIR.version = 1
    /\ testIR.suites # <<>>
    /\ EveryEntityHasId(testIR)
    /\ EveryEntityHasContext(testIR)
    /\ EveryStepHasSelector(testIR)
    /\ \A i \in 1..Len(testIR.suites) : testIR.suites[i].cases # <<>>
    /\ \A i \in 1..Len(AllCases(testIR.suites)) :
           LET c == AllCases(testIR.suites)[i]
           IN  ~Falsy(c.scenario) /\ Len(c.steps) + Len(c.expectations) > 0
    /\ \A i \in 1..Len(StepsOfIR(testIR)) :
           Includes(SUPPORTED_STEP_ACTIONS, StepsOfIR(testIR)[i].action)
    /\ \A i \in 1..Len(ExpectationsOfIR(testIR)) : CleanExpectation(ExpectationsOfIR(testIR)[i])

\* C20: each Step whose action is type, change, key or select and whose
\* value is absent gets exactly one warning "missing a value" and no error,
\* and no other Step gets this warning; in an otherwise clean IR with one
\* such Step the result has warningCount = 1, errorCount = 0 and valid = true.
C20_MissingValueWarning ==
    Validated =>
        /\ Cardinality(MissingValueIssues) = NumberOfStepsLackingValue(ir)
        /\ \A i \in MissingValueIssues : validation.issues[i].severity = "warning"
        /\ CleanButForValues(ir) =>
               /\ validation.warningCount = NumberOfStepsLackingValue(ir)
               /\ validation.errorCount = 0
               /\ validation.valid
               /\ Len(validation.issues) = NumberOfStepsLackingValue(ir)

\* a clean IR with one select Step without value: one warning, no error
C20_Witness ==
    /\ Validated
    /\ CleanButForValues(ir)
    /\ NumberOfStepsLackingValue(ir) = 1
    /\ \E i \in 1..Len(StepsOfIR(ir)) : StepsOfIR(ir)[i].action = SELECT /\ LacksValue(StepsOfIR(ir)[i])
    /\ validation.warningCount = 1
    /\ validation.errorCount = 0
    /\ validation.valid

-----------------------------------------------------------------------------
(* Properties of validateFiles                                             *)

\* the messages validateFile returns for each listed path, one after another
RECURSIVE PerFileMessages(_, _)
PerFileMessages(filePaths, opts) ==
    IF filePaths = <<>> THEN <<>>
    ELSE <<validateFile(Head(filePaths), opts)>> \o PerFileMessages(Tail(filePaths), opts)

RECURSIVE Concat(_)
Concat(lists) == IF lists = <<>> THEN <<>> ELSE Head(lists) \o Concat(Tail(lists))

\* the sum over the per-file results of the number of messages of a severity
RECURSIVE SumOfSeverity(_, _)
SumOfSeverity(lists, severity) ==
    IF lists = <<>> THEN 0
    ELSE NumberOfSeverity(Head(lists), severity) + SumOfSeverity(Tail(lists), severity)

\* C24: validateFiles returns valid = true exactly when errorCount = 0 in
\* non-strict mode and exactly when errorCount + warningCount = 0 in strict
\* mode; the message list, errorCount and warningCount are the concatenation
\* and the sums of the per-file results, and are the same in both modes.
C24_StrictCountsWarnings ==
    \A k \in 1..Len(fileResults) :
        LET call == fileResults[k]
            perFile == PerFileMessages(globbed, options)
        IN  /\ call.result.valid <=>
                   (IF call.options.strict
                    THEN call.result.errorCount + call.result.warningCount = 0
                    ELSE call.result.errorCount = 0)
            /\ call.result.messages = Concat(perFile)
            /\ call.result.errorCount = SumOfSeverity(perFile, "error")
            /\ call.result.warningCount = SumOfSeverity(perFile, "warning")
            /\ \A l \in 1..Len(fileResults) :
                   /\ fileResults[l].result.messages = call.result.messages
                   /\ fileResults[l].result.errorCount = call.result.errorCount
                   /\ fileResults[l].result.warningCount = call.result.warningCount

\* C24 witness: two listed files that both contribute a warning and no error;
\* the list is valid in non-strict mode and not valid in strict mode
C24_Witness ==
    /\ Len(fileResults) = 2
    /\ Len(globbed) = 2
    /\ \A p \in 1..2 : validateFile(globbed[p], options) # <<>>
    /\ \E k, l \in 1..2 :
           /\ ~fileResults[k].options.strict
           /\ fileResults[k].result.valid
           /\ fileResults[k].result.warningCount >= 2
           /\ fileResults[l].options.strict
           /\ ~fileResults[l].result.valid
           /\ fileResults[l].result.errorCount = 0

-----------------------------------------------------------------------------
(* Properties of repeated generation passes                                *)

C22_SecondPassWritesNothing ==
    [][passes >= 1 => (report'.totalVitest = 0 /\ report'.totalE2e = 0)]_vars

\* the Vitest and the Playwright file path of a Case
VitestPathOf(testCase) == PathJoin(VitestOutDir, generateVitestFileName(testCase))

PlaywrightPathOf(testCase) == PathJoin(E2eOutDir, generatePlaywrightFileName(testCase))

\* C23: after a generation pass no two Cases of the IR have the same Vitest
\* path or the same Playwright path, and the file at the path of every Case
\* holds the text generated for that Case.
C23_OneFilePerCase ==
    pc = "done" =>
        /\ \A sc1, sc2 \in CasesOf(ir) :
               sc1 # sc2 =>
                   /\ VitestPathOf(CaseAt(ir, sc1)) # VitestPathOf(CaseAt(ir, sc2))
                   /\ PlaywrightPathOf(CaseAt(ir, sc1)) # PlaywrightPathOf(CaseAt(ir, sc2))
        /\ \A sc \in CasesOf(ir) :
               LET suite == ir.suites[sc[1]]
                   testCase == CaseAt(ir, sc)
               IN  /\ [path |-> VitestPathOf(testCase),
                       content |-> generateVitest([suite EXCEPT !.cases = <<testCase>>])] \in out
                   /\ [path |-> PlaywrightPathOf(testCase),
                       content |-> generatePlaywright([suite EXCEPT !.cases = <<testCase>>])]
                          \in out

-----------------------------------------------------------------------------
(* Properties of the Case id                                               *)

\* the Case id is context + "__" + scenario, the scenario is "default" when
\* the element that defines the Case has no scenario attribute, and two
\* Cases of the IR with equal ids have equal context and equal scenario
CaseIdsIdentifyPairs ==
    pc = "done" =>
        /\ \A sc \in CasesOf(ir) :
               LET testCase == CaseAt(ir, sc)
                   e == fs[testCase.definedAt[1].filePath].elems[testCase.definedAt[1].line]
               IN  /\ testCase.id = testCase.context \o <<"_", "_">> \o testCase.scenario
                   /\ testCase.context = e.context
                   /\ testCase.scenario = IF e.scenario = Undefined THEN DEFAULT ELSE e.scenario
        /\ \A sc1, sc2 \in CasesOf(ir) :
               CaseAt(ir, sc1).id = CaseAt(ir, sc2).id =>
                   /\ CaseAt(ir, sc1).context = CaseAt(ir, sc2).context
                   /\ CaseAt(ir, sc1).scenario = CaseAt(ir, sc2).scenario

\* C30: the Case id is context + "__" + scenario with scenario "default"
\* when the scenario attribute is absent, a second scan of the unchanged
\* files gives the same IR and so the same ids, and two Cases of the merged
\* IR have equal ids only if they have equal context and equal scenario.
C30_IdIdentifiesPair ==
    /\ []CaseIdsIdentifyPairs
    /\ [][passes >= 1 => ir' = ir]_vars

-----------------------------------------------------------------------------
(* Properties of watch mode                                                *)

\* C26: in watch mode at most one regeneration pass is in progress at any
\* time: a pass that has started has finished its last file write before
\* another pass starts, whatever the order of events, timeouts and glob
\* completions.
C26_AtMostOnePassInProgress == Len(inFlight) <= 1

\* a regeneration pass starts in this step
PassStarts == regenerations' = regenerations + 1

\* the pass started last
NewestPass == inFlight[Len(inFlight)]

\* every event leaves exactly one timeout pending, the one it armed
EventOpensOneWindow == events' = events + 1 => pendingTimers' = 1

\* a pass starts only when a timeout fires, no window is open once it has
\* started, and its batch is the set of files of the burst that ended
PassStartsWhenWindowElapses ==
    PassStarts =>
        /\ pendingTimers' = pendingTimers - 1
        /\ pendingTimers' = 0
        /\ burst # {}
        /\ Len(inFlight') = Len(inFlight) + 1
        /\ inFlight'[Len(inFlight')].files = burst

\* every burst whose window has elapsed has started exactly one pass
OnePassPerBurst == regenerations = bursts - (IF pendingTimers > 0 THEN 1 ELSE 0)

\* C27: an event handled while a timeout is pending cancels it and opens a
\* new window; no regeneration starts while a window is open; a burst of
\* events, each handled before the window of the previous one elapsed,
\* starts exactly one regeneration, whose batch holds every file of the burst.
C27_BurstStartsOnePass ==
    /\ []OnePassPerBurst
    /\ [][EventOpensOneWindow /\ PassStartsWhenWindowElapses]_vars

\* one burst of events on both files has started one pass with both files
C27_Witness ==
    /\ events >= 2
    /\ bursts = 1
    /\ regenerations = 1
    /\ Len(inFlight) = 1
    /\ NewestPass.files = Paths

\* changedFiles becomes empty only in a step that starts a pass with
\* changedFiles as its batch
EmptiedOnlyAtPassStart ==
    (changedFiles # {} /\ changedFiles' = {}) =>
        /\ PassStarts
        /\ Len(inFlight') = Len(inFlight) + 1
        /\ inFlight'[Len(inFlight')].files = changedFiles

\* every file of the pending set still waits for a pass started after its event
PendingFilesAreUncovered == changedFiles \subseteq uncovered

====
